---------------------------- MODULE Spec2Model ----------------------------
(***************************************************************************)
(* Gomoku rules engine (GameLogic) and board state machine (GameBoard).    *)
(*                                                                         *)
(* The session state is the five fields of GameBoard.  lastCall records    *)
(* the most recent call made on the session (or on the rules engine), its  *)
(* arguments, what it returned or threw and the status of the session when *)
(* it was made, so that the outcome of a call can be related to the state  *)
(* it was made in.  eventListeners is the Map of the EventManager, from    *)
(* an event name to the callbacks registered for it.                       *)
(*                                                                         *)
(* The timestamp field of a move (Date.now()) is not modelled: no          *)
(* operation of GameBoard or GameLogic reads it.                           *)
(***************************************************************************)
EXTENDS Integers, Sequences, FiniteSets, TLC

VARIABLES board, moveHistory, currentPlayer, gameStatus, winner, lastCall,
          eventListeners

vars == <<board, moveHistory, currentPlayer, gameStatus, winner, lastCall,
          eventListeners>>

\* The five fields of a GameBoard, as one tuple.
session == <<board, moveHistory, currentPlayer, gameStatus, winner>>

-----------------------------------------------------------------------------
(* Program constants *)

boardSize == 15

BOARD_SIZE == 15

WINNING_LENGTH == 5

\* JavaScript null: an empty cell, and "no winner".
Null == "null"

Players == {"black", "white"}

Cells == Players \cup {Null}

Index == 0 .. (boardSize - 1)

-----------------------------------------------------------------------------
(* GameLogic: the rules engine *)

\* isValidMove with the lower bounds off by one: row 0 and column 0 are
\* taken to be off the board.
isValidMove_RejectsFirstRowAndColumn(b, row, col) ==
    IF row <= 0 \/ row >= BOARD_SIZE \/ col <= 0 \/ col >= BOARD_SIZE
    THEN FALSE
    ELSE b[row][col] = Null

\* isValidMove without the test that the cell is empty.
isValidMove_IgnoresOccupied(b, row, col) ==
    IF row < 0 \/ row >= BOARD_SIZE \/ col < 0 \/ col >= BOARD_SIZE
    THEN FALSE
    ELSE TRUE

isValidMove(b, row, col) ==
    IF row < 0 \/ row >= BOARD_SIZE \/ col < 0 \/ col >= BOARD_SIZE
    THEN FALSE
    ELSE b[row][col] = Null

\* directions without the two diagonals.
directions_WithoutDiagonals ==
    << << <<0, 1>>,  <<0, -1>>  >>,
       << <<1, 0>>,  <<-1, 0>>  >> >>

directions ==
    << << <<0, 1>>,  <<0, -1>>  >>,
       << <<1, 0>>,  <<-1, 0>>  >>,
       << <<1, 1>>,  <<-1, -1>> >>,
       << <<1, -1>>, <<-1, 1>>  >> >>

\* The while loop of checkWinner: the stones of player met from (r,c) on,
\* stepping by (dx,dy), up to the first other cell or the edge.
RECURSIVE countRay(_, _, _, _, _, _)
countRay(b, r, c, dx, dy, player) ==
    IF r >= 0 /\ r < BOARD_SIZE /\ c >= 0 /\ c < BOARD_SIZE /\ b[r][c] = player
    THEN 1 + countRay(b, r + dx, c + dy, dx, dy, player)
    ELSE 0

\* countDirection with count starting at 0: the placed stone is not counted.
countDirection_StartsAtZero(b, row, col, player, direction) ==
    countRay(b, row + direction[1][1], col + direction[1][2],
             direction[1][1], direction[1][2], player)
      + countRay(b, row + direction[2][1], col + direction[2][2],
                 direction[2][1], direction[2][2], player)

\* countDirection with the inner loop left after the first ray.
countDirection_FirstRayOnly(b, row, col, player, direction) ==
    1 + countRay(b, row + direction[1][1], col + direction[1][2],
                 direction[1][1], direction[1][2], player)

\* One pass of the outer loop: count starts at 1, then both rays are added.
countDirection(b, row, col, player, direction) ==
    1 + countRay(b, row + direction[1][1], col + direction[1][2],
                 direction[1][1], direction[1][2], player)
      + countRay(b, row + direction[2][1], col + direction[2][2],
                 direction[2][1], direction[2][2], player)

\* The outer loop from the i-th direction on, returning at the first hit.
RECURSIVE checkWinnerFrom(_, _, _, _, _)
checkWinnerFrom(b, row, col, player, i) ==
    IF i > Len(directions)
    THEN FALSE
    ELSE IF countDirection(b, row, col, player, directions[i]) >= WINNING_LENGTH
         THEN TRUE
         ELSE checkWinnerFrom(b, row, col, player, i + 1)

checkWinner(b, row, col, player) == checkWinnerFrom(b, row, col, player, 1)

\* checkDraw with both loops stopping one short: the last row and the last
\* column are never looked at.
checkDraw_SkipsLastRowAndColumn(b) ==
    \A row \in 0 .. (BOARD_SIZE - 2) :
        \A col \in 0 .. (BOARD_SIZE - 2) : b[row][col] # Null

checkDraw(b) ==
    \A row \in 0 .. (BOARD_SIZE - 1) :
        \A col \in 0 .. (BOARD_SIZE - 1) : b[row][col] # Null

\* The inner loop of getValidMoves from column col on: what it pushes for the
\* cells of the row that isValidMove accepts.
RECURSIVE validMovesOfRow(_, _, _)
validMovesOfRow(b, row, col) ==
    IF col >= BOARD_SIZE
    THEN <<>>
    ELSE (IF isValidMove(b, row, col)
          THEN << [row |-> row, col |-> col] >>
          ELSE <<>>) \o validMovesOfRow(b, row, col + 1)

\* The outer loop of getValidMoves from the given row on.
RECURSIVE validMovesFrom(_, _)
validMovesFrom(b, row) ==
    IF row >= BOARD_SIZE
    THEN <<>>
    ELSE validMovesOfRow(b, row, 0) \o validMovesFrom(b, row + 1)

\* getValidMoves with the loops exchanged: columns outside, rows inside.
getValidMoves_ColumnsOutside(b) ==
    LET RECURSIVE ofColumn(_, _)
        ofColumn(col, row) ==
            IF row >= BOARD_SIZE
            THEN <<>>
            ELSE (IF isValidMove(b, row, col)
                  THEN << [row |-> row, col |-> col] >>
                  ELSE <<>>) \o ofColumn(col, row + 1)
        RECURSIVE from(_)
        from(col) ==
            IF col >= BOARD_SIZE
            THEN <<>>
            ELSE ofColumn(col, 0) \o from(col + 1)
    IN  from(0)

getValidMoves(b) == validMovesFrom(b, 0)

\* The directions in the order they are examined when the outer loop of
\* checkWinner takes them in the given order, and the inner loop takes the
\* second ray before the first for the directions in flipped.
scanned(order, flipped) ==
    [i \in 1 .. Len(order) |->
        IF order[i] \in flipped
        THEN << directions[order[i]][2], directions[order[i]][1] >>
        ELSE directions[order[i]]]

\* The outer loop of checkWinner over the given directions, from the i-th on.
RECURSIVE checkWinnerScan(_, _, _, _, _, _)
checkWinnerScan(dirs, b, row, col, player, i) ==
    IF i > Len(dirs)
    THEN FALSE
    ELSE IF countDirection(b, row, col, player, dirs[i]) >= WINNING_LENGTH
         THEN TRUE
         ELSE checkWinnerScan(dirs, b, row, col, player, i + 1)

\* checkWinner returning after the first direction it examines, hit or not.
checkWinnerIn_FirstDirectionOnly(order, flipped, b, row, col, player) ==
    countDirection(b, row, col, player, scanned(order, flipped)[1]) >= WINNING_LENGTH

\* checkWinner with its two loops taking their elements in another order.
checkWinnerIn(order, flipped, b, row, col, player) ==
    checkWinnerScan(scanned(order, flipped), b, row, col, player, 1)

-----------------------------------------------------------------------------
(* GameBoard: the board state machine *)

_createEmptyBoard == [i \in Index |-> [j \in Index |-> Null]]

\* A call, what it returned or threw, and the status the session had when it
\* was made.
Call(op, args, result) ==
    [op |-> op, args |-> args, result |-> result, status |-> gameStatus]

\* A move record with the coordinates exchanged.
Move_SwapsRowAndCol(row, col, player, moveNumber) ==
    [row |-> col, col |-> row, player |-> player, moveNumber |-> moveNumber]

\* A move record as makeMove builds it.
Move(row, col, player, moveNumber) ==
    [row |-> row, col |-> col, player |-> player, moveNumber |-> moveNumber]

\* outcome with the draw looked for before the win.
outcome_DrawBeforeWin(placed, row, col) ==
    IF checkDraw(placed)
    THEN [gameStatus |-> "draw", winner |-> winner, currentPlayer |-> currentPlayer]
    ELSE IF checkWinner(placed, row, col, currentPlayer)
    THEN [gameStatus |-> "won", winner |-> currentPlayer,
          currentPlayer |-> currentPlayer]
    ELSE [gameStatus |-> gameStatus, winner |-> winner,
          currentPlayer |-> IF currentPlayer = "black" THEN "white" ELSE "black"]

\* outcome with the turn passed on after the move that draws the game.
outcome_SwitchesTurnOnDraw(placed, row, col) ==
    IF checkWinner(placed, row, col, currentPlayer)
    THEN [gameStatus |-> "won", winner |-> currentPlayer,
          currentPlayer |-> currentPlayer]
    ELSE IF checkDraw(placed)
    THEN [gameStatus |-> "draw", winner |-> winner,
          currentPlayer |-> IF currentPlayer = "black" THEN "white" ELSE "black"]
    ELSE [gameStatus |-> gameStatus, winner |-> winner,
          currentPlayer |-> IF currentPlayer = "black" THEN "white" ELSE "black"]

\* outcome with the turn passed on after a winning move too.
outcome_SwitchesTurnOnWin(placed, row, col) ==
    IF checkWinner(placed, row, col, currentPlayer)
    THEN [gameStatus |-> "won", winner |-> currentPlayer,
          currentPlayer |-> IF currentPlayer = "black" THEN "white" ELSE "black"]
    ELSE IF checkDraw(placed)
    THEN [gameStatus |-> "draw", winner |-> winner, currentPlayer |-> currentPlayer]
    ELSE [gameStatus |-> gameStatus, winner |-> winner,
          currentPlayer |-> IF currentPlayer = "black" THEN "white" ELSE "black"]

\* outcome with the turn never passed on.
outcome_NeverSwitchesTurn(placed, row, col) ==
    IF checkWinner(placed, row, col, currentPlayer)
    THEN [gameStatus |-> "won", winner |-> currentPlayer,
          currentPlayer |-> currentPlayer]
    ELSE IF checkDraw(placed)
    THEN [gameStatus |-> "draw", winner |-> winner, currentPlayer |-> currentPlayer]
    ELSE [gameStatus |-> gameStatus, winner |-> winner,
          currentPlayer |-> currentPlayer]

\* outcome with the other player recorded as the winner.
outcome_WinnerIsOtherPlayer(placed, row, col) ==
    IF checkWinner(placed, row, col, currentPlayer)
    THEN [gameStatus |-> "won",
          winner |-> IF currentPlayer = "black" THEN "white" ELSE "black",
          currentPlayer |-> currentPlayer]
    ELSE IF checkDraw(placed)
    THEN [gameStatus |-> "draw", winner |-> winner, currentPlayer |-> currentPlayer]
    ELSE [gameStatus |-> gameStatus, winner |-> winner,
          currentPlayer |-> IF currentPlayer = "black" THEN "white" ELSE "black"]

\* outcome with the player of the last stone recorded as the winner of a draw.
outcome_DrawHasWinner(placed, row, col) ==
    IF checkWinner(placed, row, col, currentPlayer)
    THEN [gameStatus |-> "won", winner |-> currentPlayer,
          currentPlayer |-> currentPlayer]
    ELSE IF checkDraw(placed)
    THEN [gameStatus |-> "draw", winner |-> currentPlayer,
          currentPlayer |-> currentPlayer]
    ELSE [gameStatus |-> gameStatus, winner |-> winner,
          currentPlayer |-> IF currentPlayer = "black" THEN "white" ELSE "black"]

\* outcome without the look for a draw.
outcome_NeverDraws(placed, row, col) ==
    IF checkWinner(placed, row, col, currentPlayer)
    THEN [gameStatus |-> "won", winner |-> currentPlayer,
          currentPlayer |-> currentPlayer]
    ELSE [gameStatus |-> gameStatus, winner |-> winner,
          currentPlayer |-> IF currentPlayer = "black" THEN "white" ELSE "black"]

\* The last part of makeMove: the status, winner and turn after the stone was
\* placed at (row,col), giving the board placed.  The win is looked for first,
\* then the draw; the turn passes on only if the game goes on.
outcome(placed, row, col) ==
    IF checkWinner(placed, row, col, currentPlayer)
    THEN [gameStatus |-> "won", winner |-> currentPlayer,
          currentPlayer |-> currentPlayer]
    ELSE IF checkDraw(placed)
    THEN [gameStatus |-> "draw", winner |-> winner, currentPlayer |-> currentPlayer]
    ELSE [gameStatus |-> gameStatus, winner |-> winner,
          currentPlayer |-> IF currentPlayer = "black" THEN "white" ELSE "black"]

\* makeMove with the moves numbered from 0.
makeMove_NumbersFromZero(row, col) ==
    IF gameStatus # "playing"
    THEN /\ UNCHANGED eventListeners
         /\ lastCall' = Call("makeMove", <<row, col>>, "GameOverError")
         /\ UNCHANGED session
    ELSE IF ~isValidMove(board, row, col)
    THEN /\ UNCHANGED eventListeners
         /\ lastCall' = Call("makeMove", <<row, col>>, "InvalidMoveError")
         /\ UNCHANGED session
    ELSE LET placed == [board EXCEPT ![row][col] = currentPlayer]
             after  == outcome(placed, row, col)
         IN  /\ board' = placed
             /\ moveHistory' = Append(moveHistory,
                    Move(row, col, currentPlayer, Len(moveHistory)))
             /\ gameStatus' = after.gameStatus
             /\ winner' = after.winner
             /\ currentPlayer' = after.currentPlayer
             /\ UNCHANGED eventListeners
             /\ lastCall' = Call("makeMove", <<row, col>>, "true")

\* makeMove with the test of the move before the test of the status.
makeMove_ValidityFirst(row, col) ==
    IF ~isValidMove(board, row, col)
    THEN /\ UNCHANGED eventListeners
         /\ lastCall' = Call("makeMove", <<row, col>>, "InvalidMoveError")
         /\ UNCHANGED session
    ELSE IF gameStatus # "playing"
    THEN /\ UNCHANGED eventListeners
         /\ lastCall' = Call("makeMove", <<row, col>>, "GameOverError")
         /\ UNCHANGED session
    ELSE LET placed == [board EXCEPT ![row][col] = currentPlayer]
             after  == outcome(placed, row, col)
         IN  /\ board' = placed
             /\ moveHistory' = Append(moveHistory,
                    Move(row, col, currentPlayer, Len(moveHistory) + 1))
             /\ gameStatus' = after.gameStatus
             /\ winner' = after.winner
             /\ currentPlayer' = after.currentPlayer
             /\ UNCHANGED eventListeners
             /\ lastCall' = Call("makeMove", <<row, col>>, "true")

\* makeMove that gives up control once the stone is on the board: the entry
\* of the history and the outcome are not written in the same step.
makeMove_StopsAfterPlacing(row, col) ==
    IF gameStatus # "playing"
    THEN /\ UNCHANGED eventListeners
         /\ lastCall' = Call("makeMove", <<row, col>>, "GameOverError")
         /\ UNCHANGED session
    ELSE IF ~isValidMove(board, row, col)
    THEN /\ UNCHANGED eventListeners
         /\ lastCall' = Call("makeMove", <<row, col>>, "InvalidMoveError")
         /\ UNCHANGED session
    ELSE /\ board' = [board EXCEPT ![row][col] = currentPlayer]
         /\ UNCHANGED eventListeners
         /\ lastCall' = Call("makeMove", <<row, col>>, "true")
         /\ UNCHANGED <<moveHistory, currentPlayer, gameStatus, winner>>

\* makeMove without the test of the status.
makeMove_IgnoresStatus(row, col) ==
    IF ~isValidMove(board, row, col)
    THEN /\ UNCHANGED eventListeners
         /\ lastCall' = Call("makeMove", <<row, col>>, "InvalidMoveError")
         /\ UNCHANGED session
    ELSE LET placed == [board EXCEPT ![row][col] = currentPlayer]
             after  == outcome(placed, row, col)
         IN  /\ board' = placed
             /\ moveHistory' = Append(moveHistory,
                    Move(row, col, currentPlayer, Len(moveHistory) + 1))
             /\ gameStatus' = after.gameStatus
             /\ winner' = after.winner
             /\ currentPlayer' = after.currentPlayer
             /\ UNCHANGED eventListeners
             /\ lastCall' = Call("makeMove", <<row, col>>, "true")

makeMove(row, col) ==
    IF gameStatus # "playing"
    THEN /\ UNCHANGED eventListeners
         /\ lastCall' = Call("makeMove", <<row, col>>, "GameOverError")
         /\ UNCHANGED session
    ELSE IF ~isValidMove(board, row, col)
    THEN /\ UNCHANGED eventListeners
         /\ lastCall' = Call("makeMove", <<row, col>>, "InvalidMoveError")
         /\ UNCHANGED session
    ELSE LET placed == [board EXCEPT ![row][col] = currentPlayer]
             after  == outcome(placed, row, col)
         IN  /\ board' = placed
             /\ moveHistory' = Append(moveHistory,
                    Move(row, col, currentPlayer, Len(moveHistory) + 1))
             /\ gameStatus' = after.gameStatus
             /\ winner' = after.winner
             /\ currentPlayer' = after.currentPlayer
             /\ UNCHANGED eventListeners
             /\ lastCall' = Call("makeMove", <<row, col>>, "true")

\* undo without the test of the status.
undo_IgnoresStatus ==
    IF Len(moveHistory) = 0
    THEN /\ UNCHANGED eventListeners
         /\ lastCall' = Call("undo", <<>>, "false")
         /\ UNCHANGED session
    ELSE LET lastMove == moveHistory[Len(moveHistory)]
         IN  /\ moveHistory' = SubSeq(moveHistory, 1, Len(moveHistory) - 1)
             /\ board' = [board EXCEPT ![lastMove.row][lastMove.col] = Null]
             /\ currentPlayer' = lastMove.player
             /\ UNCHANGED <<gameStatus, winner>>
             /\ UNCHANGED eventListeners
             /\ lastCall' = Call("undo", <<>>, "true")

\* undo that leaves the turn where it is.
undo_KeepsTurn ==
    IF Len(moveHistory) = 0
    THEN /\ UNCHANGED eventListeners
         /\ lastCall' = Call("undo", <<>>, "false")
         /\ UNCHANGED session
    ELSE IF gameStatus # "playing"
    THEN /\ UNCHANGED eventListeners
         /\ lastCall' = Call("undo", <<>>, "false")
         /\ UNCHANGED session
    ELSE LET lastMove == moveHistory[Len(moveHistory)]
         IN  /\ moveHistory' = SubSeq(moveHistory, 1, Len(moveHistory) - 1)
             /\ board' = [board EXCEPT ![lastMove.row][lastMove.col] = Null]
             /\ UNCHANGED <<currentPlayer, gameStatus, winner>>
             /\ UNCHANGED eventListeners
             /\ lastCall' = Call("undo", <<>>, "true")

\* undo that leaves the stone of the removed move on the board.
undo_LeavesStone ==
    IF Len(moveHistory) = 0
    THEN /\ UNCHANGED eventListeners
         /\ lastCall' = Call("undo", <<>>, "false")
         /\ UNCHANGED session
    ELSE IF gameStatus # "playing"
    THEN /\ UNCHANGED eventListeners
         /\ lastCall' = Call("undo", <<>>, "false")
         /\ UNCHANGED session
    ELSE LET lastMove == moveHistory[Len(moveHistory)]
         IN  /\ moveHistory' = SubSeq(moveHistory, 1, Len(moveHistory) - 1)
             /\ currentPlayer' = lastMove.player
             /\ UNCHANGED <<board, gameStatus, winner>>
             /\ UNCHANGED eventListeners
             /\ lastCall' = Call("undo", <<>>, "true")

\* undo that refuses to take back the first move of the game.
undo_KeepsFirstMove ==
    IF Len(moveHistory) <= 1
    THEN /\ UNCHANGED eventListeners
         /\ lastCall' = Call("undo", <<>>, "false")
         /\ UNCHANGED session
    ELSE IF gameStatus # "playing"
    THEN /\ UNCHANGED eventListeners
         /\ lastCall' = Call("undo", <<>>, "false")
         /\ UNCHANGED session
    ELSE LET lastMove == moveHistory[Len(moveHistory)]
         IN  /\ moveHistory' = SubSeq(moveHistory, 1, Len(moveHistory) - 1)
             /\ board' = [board EXCEPT ![lastMove.row][lastMove.col] = Null]
             /\ currentPlayer' = lastMove.player
             /\ UNCHANGED <<gameStatus, winner>>
             /\ UNCHANGED eventListeners
             /\ lastCall' = Call("undo", <<>>, "true")

undo ==
    IF Len(moveHistory) = 0
    THEN /\ UNCHANGED eventListeners
         /\ lastCall' = Call("undo", <<>>, "false")
         /\ UNCHANGED session
    ELSE IF gameStatus # "playing"
    THEN /\ UNCHANGED eventListeners
         /\ lastCall' = Call("undo", <<>>, "false")
         /\ UNCHANGED session
    ELSE LET lastMove == moveHistory[Len(moveHistory)]
         IN  /\ moveHistory' = SubSeq(moveHistory, 1, Len(moveHistory) - 1)
             /\ board' = [board EXCEPT ![lastMove.row][lastMove.col] = Null]
             /\ currentPlayer' = lastMove.player
             /\ UNCHANGED <<gameStatus, winner>>
             /\ UNCHANGED eventListeners
             /\ lastCall' = Call("undo", <<>>, "true")

\* reset that leaves the winner of the last game.
reset_KeepsWinner ==
    /\ board' = _createEmptyBoard
    /\ moveHistory' = <<>>
    /\ currentPlayer' = "black"
    /\ gameStatus' = "playing"
    /\ UNCHANGED winner
    /\ UNCHANGED eventListeners
    /\ lastCall' = Call("reset", <<>>, "undefined")

reset ==
    /\ board' = _createEmptyBoard
    /\ moveHistory' = <<>>
    /\ currentPlayer' = "black"
    /\ gameStatus' = "playing"
    /\ winner' = Null
    /\ UNCHANGED eventListeners
    /\ lastCall' = Call("reset", <<>>, "undefined")

-----------------------------------------------------------------------------
(* EventManager: the listeners of the named events.  eventListeners is the   *)
(* Map from an event name to the array of its callbacks; a name that was     *)
(* never set is not in its domain.  A callback is known by its name.         *)

\* this.eventListeners = new Map()
newMap == [eventName \in {} |-> <<>>]

\* The Map after on(eventName, callback): the array of the name is made if
\* there is none, and the callback is pushed.
pushed(listeners, eventName, callback) ==
    [name \in DOMAIN listeners \cup {eventName} |->
        IF name = eventName
        THEN IF eventName \in DOMAIN listeners
             THEN Append(listeners[eventName], callback)
             ELSE <<callback>>
        ELSE listeners[name]]

\* listeners.indexOf(callback) on an array of callbacks, from 0; -1 if absent.
indexOfCallback(array, callback) ==
    IF \E i \in 1 .. Len(array) : array[i] = callback
    THEN (CHOOSE i \in 1 .. Len(array) :
              /\ array[i] = callback
              /\ \A j \in 1 .. i - 1 : array[j] # callback) - 1
    ELSE -1

\* array.splice(index, 1), index from 0.
splice(array, index) ==
    SubSeq(array, 1, index) \o SubSeq(array, index + 2, Len(array))

\* The Map after off(eventName, callback): the first occurrence of the
\* callback is cut out of the array of the name, the array itself.
spliced(listeners, eventName, callback) ==
    IF eventName \in DOMAIN listeners
    THEN IF indexOfCallback(listeners[eventName], callback) > -1
         THEN [listeners EXCEPT ![eventName] =
                  splice(@, indexOfCallback(listeners[eventName], callback))]
         ELSE listeners
    ELSE listeners

\* The handlers GameController binds when it is constructed.
_bindEventHandlers ==
    pushed(pushed(pushed(pushed(newMap,
        "boardClick", "_handleBoardClick"),
        "newGame", "_handleNewGame"),
        "undo", "_handleUndo"),
        "restart", "_handleRestart")

\* The callbacks a caller registers: one that returns, one that throws, and
\* one that takes itself off the event it is called for and returns.
Callbacks == { "listener", "throwing", "once" }

\* callback(...args) called for eventName: the Map it leaves, and whether it
\* threw.
called(callback, listeners, eventName) ==
    [eventListeners |-> IF callback = "once"
                        THEN spliced(listeners, eventName, callback)
                        ELSE listeners,
     threw          |-> callback = "throwing"]

\* array.forEach over the array of eventName from index k: the indices below
\* the length at the start are visited in order, an index the array no longer
\* has is passed over, the element is read when its index is reached.  The
\* callback is called in a try whose catch logs the error, so the loop goes
\* on.  calls lists the callbacks called with their arguments.
RECURSIVE forEach(_, _, _, _, _, _)
forEach(listeners, eventName, args, k, length, calls) ==
    IF k >= length
    THEN [eventListeners |-> listeners, calls |-> calls, thrown |-> FALSE]
    ELSE IF k >= Len(listeners[eventName])
    THEN forEach(listeners, eventName, args, k + 1, length, calls)
    ELSE forEach(called(listeners[eventName][k + 1], listeners, eventName).eventListeners,
                 eventName, args, k + 1, length,
                 Append(calls, [callback |-> listeners[eventName][k + 1],
                                args     |-> args]))

\* The most listeners an event is given.
MaxListeners == 3

on(eventName, callback) ==
    /\ eventName \in DOMAIN eventListeners => Len(eventListeners[eventName]) < MaxListeners
    /\ eventListeners' = pushed(eventListeners, eventName, callback)
    /\ lastCall' = Call("on", <<eventName, callback>>, "undefined")
    /\ UNCHANGED session

off(eventName, callback) ==
    /\ eventListeners' = spliced(eventListeners, eventName, callback)
    /\ lastCall' = Call("off", <<eventName, callback>>, "undefined")
    /\ UNCHANGED session

\* emit(eventName, ...args).  The result records the callbacks called and
\* whether emit threw.
emit(eventName, args) ==
    \E after \in { IF eventName \in DOMAIN eventListeners
                    THEN forEach(eventListeners, eventName, args, 0,
                                 Len(eventListeners[eventName]), <<>>)
                    ELSE [eventListeners |-> eventListeners, calls |-> <<>>,
                          thrown |-> FALSE] } :
        /\ eventListeners' = after.eventListeners
        /\ lastCall' = Call("emit", <<eventName>> \o args,
                            [calls |-> after.calls, thrown |-> after.thrown])
        /\ UNCHANGED session

\* The events listened to and emitted, and the arguments emitted.
EventNames == { "boardClick", "undo" }

EventArgs == { <<>>, <<7, 7>> }

\* A new EventManager beside a new game.
InitEvents ==
    /\ board = _createEmptyBoard
    /\ moveHistory = <<>>
    /\ currentPlayer = "black"
    /\ gameStatus = "playing"
    /\ winner = Null
    /\ lastCall = [op |-> "constructor", args |-> <<>>,
                   result |-> "undefined", status |-> "playing"]
    /\ eventListeners = newMap

NextEvents ==
    \/ \E eventName \in EventNames, callback \in Callbacks : on(eventName, callback)
    \/ \E eventName \in EventNames, callback \in Callbacks : off(eventName, callback)
    \/ \E eventName \in EventNames, args \in EventArgs : emit(eventName, args)

SpecEvents == InitEvents /\ [][NextEvents]_vars

-----------------------------------------------------------------------------
(* GameController: saving and loading.  A JSON text is modelled by its       *)
(* syntax: a node [t, v] where t is the kind of the text and v its content;  *)
(* the text that is not JSON has the kind "garbage".                         *)

JsonNull == [t |-> "null", v |-> <<>>]

JsonString(chars) == [t |-> "string", v |-> chars]

JsonNumber(n) == [t |-> "number", v |-> n]

JsonArray(elements) == [t |-> "array", v |-> elements]

JsonObject(members) == [t |-> "object", v |-> members]

NotJson == [t |-> "garbage", v |-> <<>>]

\* JavaScript's undefined, the value of a property that an object lacks.
Undefined == "undefined"

\* The node standing for undefined where a member of a JSON object is read.
NoMember == [t |-> "undefined", v |-> <<>>]

\* An array is modelled by a function on its indices (the board from 0, as
\* the code indexes it; the history from 1, as a sequence).  A value that is
\* not an array, held by a field that should hold one, is modelled by the
\* function on the index -1, which no array has.
NotAnArray(value) == [i \in {-1} |-> value]

\* The copies of the board and of the history list that saveGame reads.
getBoardCopy(b) == [i \in DOMAIN b |-> [j \in DOMAIN b[i] |-> b[i][j]]]

getMoveHistory(h) == [k \in 1 .. Len(h) |-> h[k]]

\* JSON.stringify of a cell or of the winner: null, or a string.
stringifyPiece(piece) == IF piece = Null THEN JsonNull ELSE JsonString(piece)

\* JSON.stringify of a move record.
stringifyMove(move) ==
    JsonObject([row        |-> JsonNumber(move.row),
                col        |-> JsonNumber(move.col),
                player     |-> JsonString(move.player),
                moveNumber |-> JsonNumber(move.moveNumber)])

\* JSON.stringify of the board: an array of arrays, in index order.
stringifyBoard(b) ==
    JsonArray([i \in 1 .. Cardinality(DOMAIN b) |->
        JsonArray([j \in 1 .. Cardinality(DOMAIN b[i - 1]) |->
            stringifyPiece(b[i - 1][j - 1])])])

\* stringify that leaves the winner out of the text.
stringify_OmitsWinner(gameState) ==
    JsonObject([board         |-> stringifyBoard(gameState.board),
                moveHistory   |-> JsonArray([k \in 1 .. Len(gameState.moveHistory) |->
                                      stringifyMove(gameState.moveHistory[k])]),
                currentPlayer |-> JsonString(gameState.currentPlayer),
                gameStatus    |-> JsonString(gameState.gameStatus)])

\* JSON.stringify of the object that saveGame builds.
stringify(gameState) ==
    JsonObject([board         |-> stringifyBoard(gameState.board),
                moveHistory   |-> JsonArray([k \in 1 .. Len(gameState.moveHistory) |->
                                      stringifyMove(gameState.moveHistory[k])]),
                currentPlayer |-> JsonString(gameState.currentPlayer),
                gameStatus    |-> JsonString(gameState.gameStatus),
                winner        |-> stringifyPiece(gameState.winner)])

\* The text saveGame returns for a session with the given fields.
savedGame(fields) ==
    stringify([board         |-> getBoardCopy(fields.board),
               moveHistory   |-> getMoveHistory(fields.moveHistory),
               currentPlayer |-> fields.currentPlayer,
               gameStatus    |-> fields.gameStatus,
               winner        |-> fields.winner])

\* The fields of the session.
gameBoard ==
    [board |-> board, moveHistory |-> moveHistory, currentPlayer |-> currentPlayer,
     gameStatus |-> gameStatus, winner |-> winner]

saveGame ==
    /\ UNCHANGED eventListeners
    /\ lastCall' = Call("saveGame", <<>>, savedGame(gameBoard))
    /\ UNCHANGED session

\* JSON.parse of a text that is JSON: arrays become sequences, objects records.
RECURSIVE parse(_)
parse(text) ==
    CASE text.t = "null"      -> Null
      [] text.t = "undefined" -> Undefined
      [] text.t = "string"    -> text.v
      [] text.t = "number"    -> text.v
      [] text.t = "array"     -> [k \in 1 .. Len(text.v) |-> parse(text.v[k])]
      [] text.t = "object"    -> [key \in DOMAIN text.v |-> parse(text.v[key])]

\* The text of the member key of the value a text parses to; a value that is
\* not an object, or an object without the key, has no such member.
member(text, key) ==
    IF text.t = "object" /\ key \in DOMAIN text.v THEN text.v[key] ELSE NoMember

\* The parsed board as the session holds it, indexed from 0.
boardValue(text) ==
    IF text.t # "array"
    THEN NotAnArray(parse(text))
    ELSE [i \in 0 .. (Len(text.v) - 1) |->
            IF text.v[i + 1].t # "array"
            THEN NotAnArray(parse(text.v[i + 1]))
            ELSE [j \in 0 .. (Len(text.v[i + 1].v) - 1) |->
                     parse(text.v[i + 1].v[j + 1])]]

\* The parsed history as the session holds it.
historyValue(text) ==
    IF text.t # "array" THEN NotAnArray(parse(text)) ELSE parse(text)

\* Whether one of the three renderings at the end of loadGame throws, for the
\* values just installed.  renderBoard copies the board with map and spread
\* and then reads board[row][col] for the 15 rows; it asks for the last move,
\* reading the length of the history.  renderMoveHistory spreads the history
\* and reads the player of every entry.  updateGameInfo never throws.
renderThrows(text) ==
    LET b == member(text, "board")
        h == member(text, "moveHistory")
    IN  \/ b.t # "array"
        \/ \E i \in 1 .. Len(b.v) : b.v[i].t \notin {"array", "string"}
        \/ Len(b.v) < boardSize
        \/ h.t \notin {"array", "string"}
        \/ h.t = "array" /\ \E k \in 1 .. Len(h.v) : h.v[k].t \in {"null", "undefined"}

\* loaded that installs every field but the history.
loaded_KeepsHistory(prior, text) ==
    IF text.t \in {"garbage", "null"}
    THEN [board         |-> prior.board,
          moveHistory   |-> prior.moveHistory,
          currentPlayer |-> prior.currentPlayer,
          gameStatus    |-> prior.gameStatus,
          winner        |-> prior.winner,
          result        |-> "false"]
    ELSE [board         |-> boardValue(member(text, "board")),
          moveHistory   |-> prior.moveHistory,
          currentPlayer |-> parse(member(text, "currentPlayer")),
          gameStatus    |-> parse(member(text, "gameStatus")),
          winner        |-> parse(member(text, "winner")),
          result        |-> IF renderThrows(text) THEN "false" ELSE "true"]

\* The fields loadGame leaves in a session that had the fields prior, and what
\* it returns.  JSON.parse throws on a text that is not JSON, and reading a
\* property of null throws: both are caught before any field is assigned.
\* Otherwise the five fields are assigned what the parsed value holds under
\* their names, and a rendering that throws after that is caught too.
\* loaded that installs every field but the turn.
loaded_KeepsTurn(prior, text) ==
    IF text.t \in {"garbage", "null"}
    THEN [board         |-> prior.board,
          moveHistory   |-> prior.moveHistory,
          currentPlayer |-> prior.currentPlayer,
          gameStatus    |-> prior.gameStatus,
          winner        |-> prior.winner,
          result        |-> "false"]
    ELSE [board         |-> boardValue(member(text, "board")),
          moveHistory   |-> historyValue(member(text, "moveHistory")),
          currentPlayer |-> prior.currentPlayer,
          gameStatus    |-> parse(member(text, "gameStatus")),
          winner        |-> parse(member(text, "winner")),
          result        |-> IF renderThrows(text) THEN "false" ELSE "true"]

loaded(prior, text) ==
    IF text.t \in {"garbage", "null"}
    THEN [board         |-> prior.board,
          moveHistory   |-> prior.moveHistory,
          currentPlayer |-> prior.currentPlayer,
          gameStatus    |-> prior.gameStatus,
          winner        |-> prior.winner,
          result        |-> "false"]
    ELSE [board         |-> boardValue(member(text, "board")),
          moveHistory   |-> historyValue(member(text, "moveHistory")),
          currentPlayer |-> parse(member(text, "currentPlayer")),
          gameStatus    |-> parse(member(text, "gameStatus")),
          winner        |-> parse(member(text, "winner")),
          result        |-> IF renderThrows(text) THEN "false" ELSE "true"]

loadGame(text) ==
    \E after \in {loaded(gameBoard, text)} :
        /\ board' = after.board
        /\ moveHistory' = after.moveHistory
        /\ currentPlayer' = after.currentPlayer
        /\ gameStatus' = after.gameStatus
        /\ winner' = after.winner
        /\ UNCHANGED eventListeners
        /\ lastCall' = Call("loadGame", <<text>>, after.result)

\* Helpers.setLocalStorage: the item stored is JSON.stringify of the value,
\* here of the string that is the saved text.
setLocalStorage(value) == JsonString(value)

\* localStorage.getItem for a key that holds no item.
NoItem == [t |-> "none", v |-> <<>>]

\* Helpers.getLocalStorage: the default, null, if there is no item or if the
\* item does not parse; the parsed item otherwise.
getLocalStorage(item) ==
    IF item.t \in {"none", "garbage"} THEN Null ELSE parse(item)

\* The auto-save of main.js, on the timer and before the page unloads: the
\* text of saveGame is stored by setLocalStorage.  The item stored is the
\* result recorded for the call.
autoSave ==
    /\ UNCHANGED eventListeners
    /\ lastCall' = Call("autoSave", <<>>, setLocalStorage(savedGame(gameBoard)))
    /\ UNCHANGED session

\* The page is loaded again after an auto-save: a new GameBoard is made, and
\* if getLocalStorage gives a saved game and the user confirms, it is loaded.
DOMContentLoaded(shouldLoad) ==
    /\ lastCall.op = "autoSave"
    /\ LET item  == lastCall.result
           fresh == [board |-> _createEmptyBoard, moveHistory |-> <<>>,
                     currentPlayer |-> "black", gameStatus |-> "playing",
                     winner |-> Null]
       IN  \E after \in { IF item.t \notin {"none", "garbage"} /\ shouldLoad
                          THEN loaded(fresh, getLocalStorage(item))
                          ELSE [board         |-> fresh.board,
                                moveHistory   |-> fresh.moveHistory,
                                currentPlayer |-> fresh.currentPlayer,
                                gameStatus    |-> fresh.gameStatus,
                                winner        |-> fresh.winner,
                                result        |-> "undefined"] } :
               /\ board' = after.board
               /\ moveHistory' = after.moveHistory
               /\ currentPlayer' = after.currentPlayer
               /\ gameStatus' = after.gameStatus
               /\ winner' = after.winner
               /\ UNCHANGED eventListeners
               /\ lastCall' = Call("DOMContentLoaded", <<shouldLoad>>, after.result)

-----------------------------------------------------------------------------
(* The sessions explored *)

\* The cells of the board in row-major order.
RowMajor == [k \in 1 .. (boardSize * boardSize) |->
                <<(k - 1) \div boardSize, (k - 1) % boardSize>>]

\* The cells the players click on in the explored games.
PlayCells == { <<7, 4>>, <<7, 8>>, <<7, 9>>, <<8, 4>>, <<8, 8>> }

\* The order in which the stones of a start position were placed: the cells
\* of PlayCells first, then the other cells in row-major order, so that the
\* cells explored are the last ones an undo frees.
PlayOrder ==
    << <<7, 8>>, <<8, 4>>, <<7, 4>>, <<7, 9>>, <<8, 8>> >>
        \o SelectSeq(RowMajor, LAMBDA rc : rc \notin PlayCells)

\* The cells of b holding player, in that order.
StonesOf(b, player) == SelectSeq(PlayOrder, LAMBDA rc : b[rc[1]][rc[2]] = player)

\* The session reached from a new GameBoard when Black and White take turns
\* placing the stones of b, each in the order above, Black first.  b holds no
\* five in a row and as many black stones as white ones, or one more, so every
\* one of these moves is accepted and leaves the status "playing".
Played(b) ==
    LET blacks == StonesOf(b, "black")
        whites == StonesOf(b, "white")
        n      == Len(blacks) + Len(whites)
        hist   == [k \in 1 .. n |->
                     IF k % 2 = 1
                     THEN Move(blacks[(k + 1) \div 2][1], blacks[(k + 1) \div 2][2],
                               "black", k)
                     ELSE Move(whites[k \div 2][1], whites[k \div 2][2], "white", k)]
    IN  [board         |-> b,
         moveHistory   |-> hist,
         currentPlayer |-> IF n % 2 = 0 THEN "black" ELSE "white",
         gameStatus    |-> "playing",
         winner        |-> Null,
         lastCall      |-> IF n = 0
                           THEN [op |-> "constructor", args |-> <<>>,
                                 result |-> "undefined", status |-> "playing"]
                           ELSE [op |-> "makeMove",
                                 args |-> <<hist[n].row, hist[n].col>>,
                                 result |-> "true", status |-> "playing"]]

\* Six moves into the game of tests/game.test.js: Black on row 7, White on
\* row 8, columns 5 to 7.
MidGameBoard ==
    [i \in Index |-> [j \in Index |->
        IF i = 7 /\ j \in 5 .. 7 THEN "black"
        ELSE IF i = 8 /\ j \in 5 .. 7 THEN "white"
        ELSE Null]]

\* Two moves before the board is full: 112 black and 111 white stones, no five
\* in a row, (7,9) and (8,8) empty, White to move.  Black at (7,9) completes a
\* row; Black at (8,8) completes nothing.
EndGameBoard ==
    LET B == "black"
        W == "white"
        E == Null
        rows ==
         <<
           << B, B, W, W, B, B, W, W, B, B, W, W, B, B, W >>,
           << W, W, B, B, W, W, B, B, W, W, B, B, W, W, B >>,
           << B, B, W, W, B, B, W, W, B, W, W, W, B, B, W >>,
           << W, W, B, B, W, W, B, B, W, W, B, B, W, W, B >>,
           << B, B, W, W, B, B, W, W, B, B, W, W, B, B, W >>,
           << W, W, B, B, W, W, B, B, W, W, B, B, W, W, B >>,
           << B, B, W, W, B, B, W, W, B, B, W, W, B, B, W >>,
           << W, W, B, B, W, B, B, B, B, E, B, B, W, W, B >>,
           << B, B, W, W, B, W, W, W, E, B, W, W, B, B, W >>,
           << W, W, B, B, W, W, B, B, W, W, B, B, W, W, B >>,
           << B, B, W, W, B, B, W, W, B, B, W, W, B, B, W >>,
           << W, W, B, B, W, W, B, B, W, W, B, B, W, W, B >>,
           << B, B, W, W, B, B, W, W, B, B, W, W, B, B, W >>,
           << W, W, B, B, W, W, B, B, W, W, B, B, W, W, B >>,
           << B, B, W, W, B, B, W, W, B, B, W, W, B, B, W >>
         >>
    IN  [i \in Index |-> [j \in Index |-> rows[i + 1][j + 1]]]

StartSessions ==
    { Played(_createEmptyBoard), Played(MidGameBoard), Played(EndGameBoard) }

\* Clicks that miss the board, one on each side.
OffBoard == { <<-1, 0>>, <<15, 0>>, <<0, -1>>, <<0, 15>> }

MoveInputs == PlayCells \cup OffBoard

Init ==
    \E s \in StartSessions :
        /\ board = s.board
        /\ moveHistory = s.moveHistory
        /\ currentPlayer = s.currentPlayer
        /\ gameStatus = s.gameStatus
        /\ winner = s.winner
        /\ eventListeners = _bindEventHandlers
        /\ lastCall = s.lastCall

Next ==
    \/ \E rc \in MoveInputs : makeMove(rc[1], rc[2])
    \/ undo
    \/ reset

Spec == Init /\ [][Next]_vars

\* The texts found saved by an earlier page: those of the start sessions.
SavedGames == { savedGame(s) : s \in StartSessions }

\* The cells clicked on in the games that are saved and loaded: those that
\* end the two seeded games, and one off the board.
SaveInputs == { <<7, 8>>, <<7, 9>>, <<8, 8>>, <<15, 0>> }

\* The game is played, saved and loaded: the text just returned by saveGame
\* or a text saved earlier is loaded, and the page is left and loaded again.
NextSave ==
    \/ (\E rc \in SaveInputs : makeMove(rc[1], rc[2]))
    \/ undo
    \/ reset
    \/ saveGame
    \/ (lastCall.op = "saveGame" /\ loadGame(lastCall.result))
    \/ (\E text \in SavedGames : loadGame(text))
    \/ autoSave
    \/ (\E shouldLoad \in BOOLEAN : DOMContentLoaded(shouldLoad))

SpecSave == Init /\ [][NextSave]_vars

\* A JSON object text without one of its members, and with one replaced.
without(text, key) ==
    JsonObject([name \in DOMAIN text.v \ {key} |-> text.v[name]])

with(text, key, value) == JsonObject([text.v EXCEPT ![key] = value])

\* The saved text of the game of six moves, from which the texts below are
\* written.
SavedMidGame == savedGame(Played(MidGameBoard))

\* A board of 3 x 3 empty cells.
SmallBoardText == JsonArray([i \in 1 .. 3 |-> JsonArray([j \in 1 .. 3 |-> JsonNull])])

\* A board of 15 rows of 3 empty cells.
NarrowBoardText ==
    JsonArray([i \in 1 .. 15 |-> JsonArray([j \in 1 .. 3 |-> JsonNull])])

\* The saved board with "red" in its first cell.
RedBoardText ==
    LET rows == SavedMidGame.v.board.v
    IN  JsonArray([rows EXCEPT ![1] =
            JsonArray([rows[1].v EXCEPT ![1] = JsonString("red")])])

\* A history of one move, on row 99, for a board of six stones.
OffBoardHistoryText ==
    JsonArray(<< stringifyMove([row |-> 99, col |-> 0, player |-> "black",
                                moveNumber |-> 1]) >>)

\* The texts given to loadGame: a text that is not JSON, the text null, the
\* empty object, saved texts that lack one member, saved texts with a member
\* of an unknown shape or at odds with the others, the empty array, and the
\* saved texts of the start sessions.
LoadTexts ==
    << NotJson,
       JsonNull,
       JsonObject(<<>>),
       without(SavedMidGame, "board"),
       without(SavedMidGame, "moveHistory"),
       without(SavedMidGame, "currentPlayer"),
       without(SavedMidGame, "gameStatus"),
       without(SavedMidGame, "winner"),
       with(SavedMidGame, "board", SmallBoardText),
       with(SavedMidGame, "board", RedBoardText),
       with(SavedMidGame, "gameStatus", JsonString("paused")),
       with(SavedMidGame, "currentPlayer", JsonString("red")),
       with(SavedMidGame, "moveHistory", OffBoardHistoryText),
       with(SavedMidGame, "winner", JsonString("red")),
       with(SavedMidGame, "gameStatus", JsonNull),
       with(SavedMidGame, "currentPlayer", JsonNull),
       with(SavedMidGame, "board", NarrowBoardText),
       with(SavedMidGame, "moveHistory", JsonArray(<<>>)),
       with(SavedMidGame, "gameStatus", JsonString("won")),
       JsonArray(<<>>),
       SavedMidGame,
       savedGame(Played(_createEmptyBoard)),
       savedGame(Played(EndGameBoard)) >>

\* loadGame is called with any of the texts, in any session it has left, and
\* the game is reset.
NextLoad ==
    \/ (\E k \in 1 .. Len(LoadTexts) : loadGame(LoadTexts[k]))
    \/ reset

SpecLoad == Init /\ [][NextLoad]_vars

-----------------------------------------------------------------------------
(* The read accessors and a caller that changes what they returned.  The     *)
(* value returned is recorded as the result of the call.  An object reached  *)
(* through it is the session's own object unless the accessor copied it.     *)

\* getLastMove: the last entry of the history, or null.
getLastMove(h) == IF Len(h) > 0 THEN h[Len(h)] ELSE Null

\* The levels of the returned value that the accessor builds anew:
\* getBoardCopy the array of rows (map) and every row (spread),
\* getMoveHistory the list only (spread), getLastMove nothing.
copiedLevels(op) ==
    CASE op = "getBoardCopy"   -> 2
      [] op = "getMoveHistory" -> 1
      [] op = "getLastMove"    -> 0

\* An object at the given depth of the value returned by op (0 for the value
\* itself, 1 for its elements) is an object of the session.
shared(op, depth) == depth >= copiedLevels(op)

callGetBoardCopy ==
    /\ UNCHANGED eventListeners
    /\ lastCall' = Call("getBoardCopy", <<>>, getBoardCopy(board))
    /\ UNCHANGED session

callGetMoveHistory ==
    /\ UNCHANGED eventListeners
    /\ lastCall' = Call("getMoveHistory", <<>>, getMoveHistory(moveHistory))
    /\ UNCHANGED session

callGetLastMove ==
    /\ UNCHANGED eventListeners
    /\ lastCall' = Call("getLastMove", <<>>, getLastMove(moveHistory))
    /\ UNCHANGED session

\* The caller sets a cell of the board it was given: it changes a row.
callerChangesCell(row, col, piece) ==
    /\ lastCall.op = "getBoardCopy"
    /\ board' = IF shared("getBoardCopy", 1)
                THEN [board EXCEPT ![row][col] = piece]
                ELSE board
    /\ UNCHANGED <<moveHistory, currentPlayer, gameStatus, winner>>
    /\ UNCHANGED eventListeners
    /\ lastCall' = Call("callerChangesCell", <<row, col, piece>>,
                        [lastCall.result EXCEPT ![row][col] = piece])

\* The caller removes the last entry of the list it was given: it changes the
\* list.
callerRemovesEntry ==
    /\ lastCall.op = "getMoveHistory"
    /\ Len(lastCall.result) > 0
    /\ moveHistory' = IF shared("getMoveHistory", 0)
                      THEN SubSeq(moveHistory, 1, Len(moveHistory) - 1)
                      ELSE moveHistory
    /\ UNCHANGED <<board, currentPlayer, gameStatus, winner>>
    /\ UNCHANGED eventListeners
    /\ lastCall' = Call("callerRemovesEntry", <<>>,
                        SubSeq(lastCall.result, 1, Len(lastCall.result) - 1))

\* The caller sets a field of the last move record it was given, the last
\* element of the list or the record returned by getLastMove: it changes the
\* record.
callerChangesMove(field, value) ==
    /\ lastCall.op \in {"getMoveHistory", "getLastMove"}
    /\ Len(moveHistory) > 0
    /\ moveHistory' =
           IF shared(lastCall.op, IF lastCall.op = "getMoveHistory" THEN 1 ELSE 0)
           THEN [moveHistory EXCEPT ![Len(moveHistory)][field] = value]
           ELSE moveHistory
    /\ UNCHANGED <<board, currentPlayer, gameStatus, winner>>
    /\ UNCHANGED eventListeners
    /\ lastCall' = Call("callerChangesMove", <<field, value>>,
                        IF lastCall.op = "getMoveHistory"
                        THEN [lastCall.result EXCEPT ![Len(lastCall.result)][field] = value]
                        ELSE [lastCall.result EXCEPT ![field] = value])

\* The cell clicked on, and the changes a caller makes.
AccessInputs == { <<7, 8>> }

MoveChanges == { <<"row", 0>>, <<"player", "white">> }

\* The sessions read start as a new game or as the game of six moves.
InitAccess ==
    \E s \in { Played(_createEmptyBoard), Played(MidGameBoard) } :
        /\ board = s.board
        /\ moveHistory = s.moveHistory
        /\ currentPlayer = s.currentPlayer
        /\ gameStatus = s.gameStatus
        /\ winner = s.winner
        /\ eventListeners = _bindEventHandlers
        /\ lastCall = s.lastCall

NextAccess ==
    \/ (\E rc \in AccessInputs : makeMove(rc[1], rc[2]))
    \/ undo
    \/ reset
    \/ callGetBoardCopy
    \/ callGetMoveHistory
    \/ callGetLastMove
    \/ (\E rc \in AccessInputs : callerChangesCell(rc[1], rc[2], "white"))
    \/ callerRemovesEntry
    \/ (\E change \in MoveChanges : callerChangesMove(change[1], change[2]))

SpecAccess == InitAccess /\ [][NextAccess]_vars

-----------------------------------------------------------------------------
(* The start sessions are sessions of the program: each is what a new        *)
(* GameBoard becomes when the moves of its history are made one by one.      *)

InitReplay ==
    /\ board = _createEmptyBoard
    /\ moveHistory = <<>>
    /\ currentPlayer = "black"
    /\ gameStatus = "playing"
    /\ winner = Null
    /\ eventListeners = _bindEventHandlers
    /\ lastCall = [op |-> "constructor", args |-> <<>>,
                   result |-> "undefined", status |-> "playing"]

\* The next move of the history of a start session is made.
replay ==
    \E s \in StartSessions :
        /\ Len(moveHistory) < Len(s.moveHistory)
        /\ moveHistory = SubSeq(s.moveHistory, 1, Len(moveHistory))
        /\ makeMove(s.moveHistory[Len(moveHistory) + 1].row,
                    s.moveHistory[Len(moveHistory) + 1].col)

SpecReplay == InitReplay /\ [][replay]_vars

\* Replaying the history of a start session gives that session, field by
\* field, every move being accepted on the way.
ReplayGivesStartSession ==
    /\ lastCall.result \in {"undefined", "true"}
    /\ \A s \in StartSessions :
           moveHistory = s.moveHistory =>
               /\ board = s.board
               /\ currentPlayer = s.currentPlayer
               /\ gameStatus = s.gameStatus
               /\ winner = s.winner
               /\ lastCall = s.lastCall

-----------------------------------------------------------------------------
(* The game of the draw scenario: a new game in which every stone is put on  *)
(* a cell of its parity colour, Black where row + col is even and White      *)
(* where it is odd.                                                          *)

\* The colour the scenario gives to a cell.
parityColour(rc) == IF (rc[1] + rc[2]) % 2 = 0 THEN "black" ELSE "white"

\* The cells in row-major order, rows 4, 9 and 14 coming after all others.
EveryFifthRowLast ==
    SelectSeq(RowMajor, LAMBDA rc : rc[1] % 5 # 4)
        \o SelectSeq(RowMajor, LAMBDA rc : rc[1] % 5 = 4)

\* The moves of a game that takes the cells in the given order: Black plays
\* the cells of its colour in that order, White those of its own, in turn.
parityGame(order) ==
    LET blacks == SelectSeq(order, LAMBDA rc : parityColour(rc) = "black")
        whites == SelectSeq(order, LAMBDA rc : parityColour(rc) = "white")
    IN  [k \in 1 .. Len(order) |->
            IF k % 2 = 1 THEN blacks[(k + 1) \div 2] ELSE whites[k \div 2]]

ParityGames == { parityGame(RowMajor), parityGame(EveryFifthRowLast) }

\* The next move of a parity game is attempted.
playParity ==
    \E game \in ParityGames :
        /\ Len(moveHistory) < Len(game)
        /\ \A k \in 1 .. Len(moveHistory) :
               <<moveHistory[k].row, moveHistory[k].col>> = game[k]
        /\ makeMove(game[Len(moveHistory) + 1][1], game[Len(moveHistory) + 1][2])

SpecParity == InitReplay /\ [][playParity]_vars

-----------------------------------------------------------------------------
(* The rules engine on its own: boards handed to GameLogic by a caller *)

\* The number of cells of a line that hold an arbitrary pattern of cell values.
LineLen == 6

\* The lines the patterns are laid on, each <<row, col, dr, dc>>: its first
\* cell and its step.  Each axis has a line in the middle of the board and one
\* that runs into an edge or a corner.
Lines ==
    { <<7, 4, 0, 1>>,  <<0, 9, 0, 1>>,
      <<4, 7, 1, 0>>,  <<9, 0, 1, 0>>,
      <<4, 4, 1, 1>>,  <<9, 9, 1, 1>>,
      <<4, 10, 1, -1>>, <<9, 5, 1, -1>> }

\* The board that is empty but for the pattern laid on the line.
LineBoard(line, pattern) ==
    [i \in Index |-> [j \in Index |->
        IF \E k \in 0 .. (LineLen - 1) :
               i = line[1] + k * line[3] /\ j = line[2] + k * line[4]
        THEN pattern[CHOOSE k \in 0 .. (LineLen - 1) :
                         i = line[1] + k * line[3] /\ j = line[2] + k * line[4]]
        ELSE Null]]

\* The eight neighbours of the centre (7,7).
Around == { <<-1, -1>>, <<-1, 0>>, <<-1, 1>>, <<0, -1>>,
            <<0, 1>>, <<1, -1>>, <<1, 0>>, <<1, 1>> }

\* A black stone at the centre and on the chosen neighbours: short runs on
\* several axes at once.
StarBoard(chosen) ==
    [i \in Index |-> [j \in Index |->
        IF (i = 7 /\ j = 7) \/ <<i - 7, j - 7>> \in chosen THEN "black" ELSE Null]]

\* The coordinates isValidMove is asked about: off the board on every side and
\* at two corners, and cells of the board.
Probes ==
    { <<-1, 0>>, <<15, 0>>, <<0, -1>>, <<0, 15>>, <<-1, -1>>, <<15, 15>>,
      <<0, 0>>, <<14, 14>>, <<7, 7>>, <<7, 4>> }

\* The cells that hold a stone on some test board.
TestCells ==
    { <<line[1] + k * line[3], line[2] + k * line[4]>> :
          line \in Lines, k \in 0 .. (LineLen - 1) }
        \cup { <<7 + d[1], 7 + d[2]>> : d \in Around \cup {<<0, 0>>} }

\* A caller hands a board to a new GameLogic and asks one question about it.
callIsValidMove(row, col) ==
    /\ lastCall.op = "GameLogic"
    /\ UNCHANGED eventListeners
    /\ lastCall' = Call("isValidMove", <<row, col>>, isValidMove(board, row, col))
    /\ UNCHANGED session

\* checkWinner is called for a cell that holds a stone of the player.
callCheckWinner(row, col, player) ==
    /\ lastCall.op = "GameLogic"
    /\ row \in Index /\ col \in Index
    /\ board[row][col] = player
    /\ UNCHANGED eventListeners
    /\ lastCall' = Call("checkWinner", <<row, col, player>>,
                        checkWinner(board, row, col, player))
    /\ UNCHANGED session

InitLogic ==
    /\ \/ \E line \in Lines, pattern \in [0 .. (LineLen - 1) -> Cells] :
              board = LineBoard(line, pattern)
       \/ \E chosen \in SUBSET Around : board = StarBoard(chosen)
    /\ moveHistory = <<>>
    /\ currentPlayer = "black"
    /\ gameStatus = "playing"
    /\ winner = Null
    /\ eventListeners = _bindEventHandlers
    /\ lastCall = [op |-> "GameLogic", args |-> <<>>,
                   result |-> "undefined", status |-> "playing"]

NextLogic ==
    \/ \E rc \in Probes : callIsValidMove(rc[1], rc[2])
    \/ \E rc \in TestCells, player \in Players :
           callCheckWinner(rc[1], rc[2], player)

SpecLogic == InitLogic /\ [][NextLogic]_vars

-----------------------------------------------------------------------------
(* The rules engine asked several questions about one board *)

\* The ways every cell of a board is filled: in a chequer pattern, in rows of
\* alternating colour, and with black stones only.
Fillings == { "chequered", "rows", "black" }

FullBoard(filling) ==
    [i \in Index |-> [j \in Index |->
        CASE filling = "chequered" -> IF (i + j) % 2 = 0 THEN "black" ELSE "white"
          [] filling = "rows"      -> IF i % 2 = 0 THEN "black" ELSE "white"
          [] OTHER                 -> "black"]]

\* The cells left empty on an otherwise full board: the corners, a cell of
\* the first row, the centre and the cell after it.
Holes == { <<0, 0>>, <<0, 14>>, <<0, 5>>, <<7, 7>>, <<7, 8>>, <<14, 0>>, <<14, 14>> }

HolesBoard(filling, holes) ==
    [i \in Index |-> [j \in Index |->
        IF <<i, j>> \in holes THEN Null ELSE FullBoard(filling)[i][j]]]

\* A black stone at the centre (7,7) and, for each direction, first[d] more
\* black stones along its first ray and second[d] along its second ray.
RaysBoard(first, second) ==
    [i \in Index |-> [j \in Index |->
        IF \E d \in 1 .. Len(directions) :
              \/ \E k \in 0 .. first[d] :
                     i = 7 + k * directions[d][1][1] /\ j = 7 + k * directions[d][1][2]
              \/ \E k \in 0 .. second[d] :
                     i = 7 + k * directions[d][2][1] /\ j = 7 + k * directions[d][2][2]
        THEN "black" ELSE Null]]

\* The cells checkWinner is asked about.
QueryCells == { <<7, 7>>, <<7, 9>>, <<0, 0>>, <<14, 14>>, <<0, 14>> }

queryIsValidMove(row, col) ==
    /\ UNCHANGED eventListeners
    /\ lastCall' = Call("isValidMove", <<row, col>>, isValidMove(board, row, col))
    /\ UNCHANGED session

queryCheckWinner(row, col, player) ==
    /\ UNCHANGED eventListeners
    /\ lastCall' = Call("checkWinner", <<row, col, player>>,
                        checkWinner(board, row, col, player))
    /\ UNCHANGED session

queryCheckDraw ==
    /\ UNCHANGED eventListeners
    /\ lastCall' = Call("checkDraw", <<>>, checkDraw(board))
    /\ UNCHANGED session

\* getValidMoves that also puts a black stone on the first cell it finds.
queryGetValidMoves_TakesFirstMove ==
    /\ UNCHANGED eventListeners
    /\ lastCall' = Call("getValidMoves", <<>>, getValidMoves(board))
    /\ board' = IF getValidMoves(board) = <<>>
                THEN board
                ELSE [board EXCEPT ![getValidMoves(board)[1].row]
                                   [getValidMoves(board)[1].col] = "black"]
    /\ UNCHANGED <<moveHistory, currentPlayer, gameStatus, winner>>

queryGetValidMoves ==
    /\ UNCHANGED eventListeners
    /\ lastCall' = Call("getValidMoves", <<>>, getValidMoves(board))
    /\ UNCHANGED session

\* GameBoard.getPiece and GameBoard.isEmpty, on the board of the session.
getPiece(row, col) ==
    IF row < 0 \/ row >= boardSize \/ col < 0 \/ col >= boardSize
    THEN Null
    ELSE board[row][col]

isEmpty(row, col) == getPiece(row, col) = Null

queryIsEmpty(row, col) ==
    /\ UNCHANGED eventListeners
    /\ lastCall' = Call("isEmpty", <<row, col>>, isEmpty(row, col))
    /\ UNCHANGED session

InitQuery ==
    /\ \/ \E filling \in Fillings, holes \in SUBSET Holes :
              /\ Cardinality(holes) <= 2
              /\ board = HolesBoard(filling, holes)
       \/ \E first \in [1 .. Len(directions) -> {0, 2}],
             second \in [1 .. Len(directions) -> {0, 2}] :
              board = RaysBoard(first, second)
    /\ moveHistory = <<>>
    /\ currentPlayer = "black"
    /\ gameStatus = "playing"
    /\ winner = Null
    /\ eventListeners = _bindEventHandlers
    /\ lastCall = [op |-> "GameLogic", args |-> <<>>,
                   result |-> "undefined", status |-> "playing"]

NextQuery ==
    \/ \E rc \in Probes : queryIsValidMove(rc[1], rc[2])
    \/ \E rc \in QueryCells, player \in Players :
           queryCheckWinner(rc[1], rc[2], player)
    \/ queryCheckDraw
    \/ queryGetValidMoves
    \/ \E rc \in Probes : queryIsEmpty(rc[1], rc[2])

SpecQuery == InitQuery /\ [][NextQuery]_vars

-----------------------------------------------------------------------------
(* Games played to their end: stones are placed and nothing is taken back *)

\* The number of moves of the 223-stone game that were taken back before the
\* play starts, at most.
MaxTakenBack == 3

\* The session after n undos on the playing session s.
TakenBack(s, n) ==
    LET kept == Len(s.moveHistory) - n
    IN  [board         |-> [i \in Index |-> [j \in Index |->
                               IF \E k \in (kept + 1) .. Len(s.moveHistory) :
                                      s.moveHistory[k].row = i /\ s.moveHistory[k].col = j
                               THEN Null ELSE s.board[i][j]]],
         moveHistory   |-> SubSeq(s.moveHistory, 1, kept),
         currentPlayer |-> IF n = 0 THEN s.currentPlayer
                           ELSE s.moveHistory[kept + 1].player,
         gameStatus    |-> s.gameStatus,
         winner        |-> s.winner,
         lastCall      |-> IF n = 0 THEN s.lastCall
                           ELSE [op |-> "undo", args |-> <<>>,
                                 result |-> "true", status |-> "playing"]]

\* The cells clicked on: every cell that is empty in some start of the play,
\* a cell that holds a stone and a click off the board.
PlayInputs ==
    { <<Played(EndGameBoard).moveHistory[k].row, Played(EndGameBoard).moveHistory[k].col>> :
          k \in (Len(Played(EndGameBoard).moveHistory) - MaxTakenBack + 1)
                    .. Len(Played(EndGameBoard).moveHistory) }
        \cup { <<7, 9>>, <<8, 8>>, <<0, 0>>, <<15, 0>> }

InitPlay ==
    \E n \in 0 .. MaxTakenBack :
        \E s \in { TakenBack(Played(EndGameBoard), n) } :
            /\ board = s.board
            /\ moveHistory = s.moveHistory
            /\ currentPlayer = s.currentPlayer
            /\ gameStatus = s.gameStatus
            /\ winner = s.winner
            /\ eventListeners = _bindEventHandlers
            /\ lastCall = s.lastCall

NextPlay == \E rc \in PlayInputs : makeMove(rc[1], rc[2])

\* A click that places a stone.
placeStone ==
    \E rc \in PlayInputs : makeMove(rc[1], rc[2]) /\ lastCall'.result = "true"

\* The players keep placing stones as long as a click can place one.
SpecPlay == InitPlay /\ [][NextPlay]_vars /\ WF_vars(placeStone)

-----------------------------------------------------------------------------
(* Helpers: the display coordinates.  A string is the sequence of its
   characters. *)

\* 'ABCDEFGHIJKLMNO'
letters == << "A", "B", "C", "D", "E", "F", "G", "H", "I", "J", "K", "L", "M", "N", "O" >>

\* The characters that toUpperCase maps to the letters, in the same order.
lowerCaseLetters ==
    << "a", "b", "c", "d", "e", "f", "g", "h", "i", "j", "k", "l", "m", "n", "o" >>

\* The decimal digits, the digit d at index d + 1.
decimalDigits == << "0", "1", "2", "3", "4", "5", "6", "7", "8", "9" >>

Range(seq) == { seq[i] : i \in 1 .. Len(seq) }

\* The characters of a number of 0 or more put into a template literal.
RECURSIVE numberToString(_)
numberToString(n) ==
    IF n < 10
    THEN << decimalDigits[n + 1] >>
    ELSE numberToString(n \div 10) \o << decimalDigits[(n % 10) + 1] >>

boardToDisplayCoords(row, col) == << letters[col + 1] >> \o numberToString(15 - row)

\* String.prototype.toUpperCase on the one character of the first group, which
\* is a letter A-O of either case.
toUpperCase(char) ==
    IF char \in Range(lowerCaseLetters)
    THEN letters[CHOOSE i \in 1 .. Len(letters) : lowerCaseLetters[i] = char]
    ELSE char

\* parseInt of a string of decimal digits.
RECURSIVE parseInt(_)
parseInt(chars) ==
    IF Len(chars) = 1
    THEN (CHOOSE d \in 0 .. 9 : decimalDigits[d + 1] = chars[1])
    ELSE 10 * parseInt(SubSeq(chars, 1, Len(chars) - 1))
           + (CHOOSE d \in 0 .. 9 : decimalDigits[d + 1] = chars[Len(chars)])

\* 'ABCDEFGHIJKLMNO'.indexOf(letter)
indexOf(letter) ==
    IF letter \in Range(letters)
    THEN (CHOOSE i \in 1 .. Len(letters) : letters[i] = letter) - 1
    ELSE -1

\* displayCoords.match(/^([A-O])([1-9]|1[0-5])$/i): no match is <<>>, a match
\* is the two groups.  With the flag i the class [A-O] takes the letters of
\* either case; the second group is one digit from 1 on, or 1 and a digit up
\* to 5; nothing may come before or after.
match(displayCoords) ==
    IF /\ Len(displayCoords) \in {2, 3}
       /\ displayCoords[1] \in Range(letters) \cup Range(lowerCaseLetters)
       /\ \/ /\ Len(displayCoords) = 2
             /\ displayCoords[2] \in Range(SubSeq(decimalDigits, 2, 10))
          \/ /\ Len(displayCoords) = 3
             /\ displayCoords[2] = "1"
             /\ displayCoords[3] \in Range(SubSeq(decimalDigits, 1, 6))
    THEN << << displayCoords[1] >>, SubSeq(displayCoords, 2, Len(displayCoords)) >>
    ELSE <<>>

\* The null that displayToBoardCoords returns, as a record: TLC compares a
\* record with a record only.
NoCoords == [null |-> TRUE]

displayToBoardCoords(displayCoords) ==
    IF match(displayCoords) = <<>>
    THEN NoCoords
    ELSE LET letter == toUpperCase(match(displayCoords)[1][1])
             number == parseInt(match(displayCoords)[2])
             col    == indexOf(letter)
             row    == 15 - number
         IN  IF col = -1 \/ row < 0 \/ row >= 15
             THEN NoCoords
             ELSE [row |-> row, col |-> col]

\* The longest strings handed to displayToBoardCoords.
MaxText == 3

\* The characters of those strings: letters of the board in both cases, a
\* letter past the last column in both cases, digits and a blank.
TextChars == { "A", "H", "O", "P", "a", "o", "p", "0", "1", "5", "6", "9", " " }

Texts == UNION { [1 .. n -> TextChars] : n \in 0 .. MaxText }

\* The module is loaded, and one of the two functions is called.
callBoardToDisplayCoords(row, col) ==
    /\ lastCall.op = "Helpers"
    /\ UNCHANGED eventListeners
    /\ lastCall' = Call("boardToDisplayCoords", <<row, col>>,
                        boardToDisplayCoords(row, col))
    /\ UNCHANGED session

callDisplayToBoardCoords(displayCoords) ==
    /\ lastCall.op = "Helpers"
    /\ UNCHANGED eventListeners
    /\ lastCall' = Call("displayToBoardCoords", <<displayCoords>>,
                        displayToBoardCoords(displayCoords))
    /\ UNCHANGED session

\* The string that boardToDisplayCoords returned is handed to
\* displayToBoardCoords.
convertBack ==
    /\ lastCall.op = "boardToDisplayCoords"
    /\ UNCHANGED eventListeners
    /\ lastCall' = Call("displayToBoardCoords", <<lastCall.result>>,
                        displayToBoardCoords(lastCall.result))
    /\ UNCHANGED session

InitCoords ==
    /\ board = _createEmptyBoard
    /\ moveHistory = <<>>
    /\ currentPlayer = "black"
    /\ gameStatus = "playing"
    /\ winner = Null
    /\ eventListeners = _bindEventHandlers
    /\ lastCall = [op |-> "Helpers", args |-> <<>>,
                   result |-> "undefined", status |-> "playing"]

NextCoords ==
    \/ \E row \in Index, col \in Index : callBoardToDisplayCoords(row, col)
    \/ \E displayCoords \in Texts : callDisplayToBoardCoords(displayCoords)
    \/ convertBack

SpecCoords == InitCoords /\ [][NextCoords]_vars

-----------------------------------------------------------------------------
(* Vocabulary of the properties *)

InBoard(row, col) == row \in 0 .. 14 /\ col \in 0 .. 14

Other(player) == IF player = "black" THEN "white" ELSE "black"

Axes == { <<0, 1>>, <<1, 0>>, <<1, 1>>, <<1, -1>> }

\* The length of the contiguous run of player's stones through (row,col) on
\* an axis: the number of offsets k such that every cell from (row,col) to the
\* k-th cell along the axis is on the board and holds a stone of player.
RunThrough(b, row, col, player, axis) ==
    Cardinality({ k \in -14 .. 14 :
        \A j \in (IF k < 0 THEN k ELSE 0) .. (IF k < 0 THEN 0 ELSE k) :
            /\ InBoard(row + j * axis[1], col + j * axis[2])
            /\ b[row + j * axis[1]][col + j * axis[2]] = player })

\* The longest of the four runs through (row,col) has length n.
LongestRunIs(b, row, col, player, n) ==
    /\ \E axis \in Axes : RunThrough(b, row, col, player, axis) = n
    /\ \A axis \in Axes : RunThrough(b, row, col, player, axis) <= n

StonesOn(b) == Cardinality({ rc \in (0 .. 14) \X (0 .. 14) : b[rc[1]][rc[2]] # Null })

\* The step just taken was a call of op (every call sets lastCall).
Called(op) == lastCall'.op = op

-----------------------------------------------------------------------------
(* Properties of the rules engine, under SpecLogic *)

\* C1: for a cell holding the player's stone, checkWinner returns true if and
\* only if the contiguous run of the player's stones through the cell has
\* length 5 or more on at least one of the four axes; in particular it
\* returns false when the longest run is exactly 4.
C1_CheckWinnerIffRunOfFive ==
    lastCall.op = "checkWinner" =>
        LET row    == lastCall.args[1]
            col    == lastCall.args[2]
            player == lastCall.args[3]
        IN  /\ lastCall.result =
                  (\E axis \in Axes : RunThrough(board, row, col, player, axis) >= 5)
            /\ LongestRunIs(board, row, col, player, 4) => lastCall.result = FALSE

\* checkWinner returned true for a run of exactly 5 that is not on the first
\* axis scanned.
C1_Witness ==
    /\ lastCall.op = "checkWinner"
    /\ lastCall.result = TRUE
    /\ LongestRunIs(board, lastCall.args[1], lastCall.args[2], lastCall.args[3], 5)
    /\ RunThrough(board, lastCall.args[1], lastCall.args[2], lastCall.args[3],
                  <<0, 1>>) < 5

\* C2: isValidMove returns true if and only if the coordinates are on the
\* board and the cell is empty; off the board it returns false (a boolean is
\* returned in every case).
C2_IsValidMoveIffInRangeAndEmpty ==
    lastCall.op = "isValidMove" =>
        LET row == lastCall.args[1]
            col == lastCall.args[2]
        IN  /\ lastCall.result \in BOOLEAN
            /\ lastCall.result = (InBoard(row, col) /\ board[row][col] = Null)
            /\ ~InBoard(row, col) => lastCall.result = FALSE

\* isValidMove returned false for a coordinate off the board, on a board that
\* holds stones.
C2_Witness ==
    /\ lastCall.op = "isValidMove"
    /\ lastCall.args = <<15, 15>>
    /\ lastCall.result = FALSE
    /\ StonesOn(board) > 0

-----------------------------------------------------------------------------
(* Properties of the board state machine, under Spec *)

\* C3: an accepted makeMove whose stone makes checkWinner true sets the
\* status to won and the winner to the mover, and does not switch the turn.
C3_WinningMoveSetsWonAndWinner ==
    [][ ( /\ Called("makeMove")
          /\ lastCall'.result = "true"
          /\ checkWinner(board', lastCall'.args[1], lastCall'.args[2], currentPlayer) )
        => ( /\ gameStatus' = "won"
             /\ winner' = currentPlayer
             /\ currentPlayer' = currentPlayer ) ]_vars

\* The game of the example: Black on (7,5) to (7,8), White on (8,5) to (8,8),
\* then Black on (7,9); it is won by Black.
C3_Witness ==
    /\ Len(moveHistory) = 9
    /\ \A k \in 1 .. 9 :
           moveHistory[k] =
               IF k % 2 = 1
               THEN Move(7, 4 + (k + 1) \div 2, "black", k)
               ELSE Move(8, 4 + k \div 2, "white", k)
    /\ lastCall.op = "makeMove" /\ lastCall.args = <<7, 9>>
    /\ gameStatus = "won"
    /\ winner = "black"
    /\ currentPlayer = "black"

\* C4: makeMove called while the status is won or draw fails with the
\* game-over error, whatever the coordinates, and changes no field.
C4_MoveAfterGameOverRejected ==
    [][ (Called("makeMove") /\ gameStatus # "playing")
        => (lastCall'.result = "GameOverError" /\ UNCHANGED session) ]_vars

\* makeMove was rejected with the game-over error on a drawn game.
C4_Witness ==
    /\ lastCall.op = "makeMove"
    /\ lastCall.result = "GameOverError"
    /\ gameStatus = "draw"

\* C5: makeMove called while playing on a cell that is off the board or
\* occupied fails with the invalid-move error and changes no field.
C5_InvalidMoveRejected ==
    [][ ( /\ Called("makeMove")
          /\ gameStatus = "playing"
          /\ ~(InBoard(lastCall'.args[1], lastCall'.args[2])
                 /\ board[lastCall'.args[1]][lastCall'.args[2]] = Null) )
        => (lastCall'.result = "InvalidMoveError" /\ UNCHANGED session) ]_vars

\* makeMove was rejected on an occupied cell of a game in progress: the stone
\* there and the turn are the opponent's still.
C5_Witness ==
    /\ lastCall.op = "makeMove"
    /\ lastCall.result = "InvalidMoveError"
    /\ InBoard(lastCall.args[1], lastCall.args[2])
    /\ board[lastCall.args[1]][lastCall.args[2]] = "white"
    /\ currentPlayer = "black"
    /\ gameStatus = "playing"

\* C6: an accepted makeMove(row,col) sets the cell (row,col) to the mover's
\* colour and no other cell, and appends the one move {row, col, mover,
\* previous length + 1} to the history, whose earlier entries stay.
C6_AcceptedMoveFrame ==
    [][ (Called("makeMove") /\ lastCall'.result = "true")
        => LET row == lastCall'.args[1]
               col == lastCall'.args[2]
               n   == Len(moveHistory)
           IN  /\ board'[row][col] = currentPlayer
               /\ \A i \in 0 .. 14, j \in 0 .. 14 :
                      <<i, j>> # <<row, col>> => board'[i][j] = board[i][j]
               /\ Len(moveHistory') = n + 1
               /\ moveHistory'[n + 1] =
                      [row |-> row, col |-> col, player |-> currentPlayer,
                       moveNumber |-> n + 1]
               /\ \A k \in 1 .. n : moveHistory'[k] = moveHistory[k] ]_vars

\* Black's seventh move, on (7,8), was accepted and recorded.
C6_Witness ==
    /\ lastCall.op = "makeMove" /\ lastCall.args = <<7, 8>>
    /\ lastCall.result = "true"
    /\ Len(moveHistory) = 7
    /\ moveHistory[7] = [row |-> 7, col |-> 8, player |-> "black", moveNumber |-> 7]
    /\ board[7][8] = "black"
    /\ StonesOn(board) = 7

\* C7: an accepted makeMove that neither wins nor fills the board passes the
\* turn to the other colour; the status stays playing and the winner null.
C7_OrdinaryMoveSwitchesTurn ==
    [][ ( /\ Called("makeMove")
          /\ lastCall'.result = "true"
          /\ ~checkWinner(board', lastCall'.args[1], lastCall'.args[2], currentPlayer)
          /\ ~checkDraw(board') )
        => ( /\ currentPlayer' = Other(currentPlayer)
             /\ gameStatus' = "playing"
             /\ winner' = Null ) ]_vars

\* White's move was accepted and it is Black's turn in a game still playing.
C7_Witness ==
    /\ lastCall.op = "makeMove" /\ lastCall.result = "true"
    /\ Len(moveHistory) = 2
    /\ moveHistory[2].player = "white"
    /\ currentPlayer = "black"
    /\ gameStatus = "playing"
    /\ winner = Null

\* C8: undo returns failure and changes no field when the history is empty
\* or the status is won or draw.
C8_UndoRejected ==
    [][ (Called("undo") /\ (Len(moveHistory) = 0 \/ gameStatus # "playing"))
        => (lastCall'.result = "false" /\ UNCHANGED session) ]_vars

\* undo was refused on a won game: the winning move is still on the board.
C8_Witness ==
    /\ lastCall.op = "undo"
    /\ lastCall.result = "false"
    /\ gameStatus = "won"
    /\ Len(moveHistory) > 0
    /\ board[moveHistory[Len(moveHistory)].row][moveHistory[Len(moveHistory)].col]
           = winner

\* C9: undo on a game in progress with a non-empty history succeeds, removes
\* the last history entry and no other, empties that entry's cell and no
\* other, gives the turn to the player of the removed move, and leaves the
\* status playing and the winner null.
C9_UndoFrame ==
    [][ (Called("undo") /\ gameStatus = "playing" /\ Len(moveHistory) > 0)
        => LET n    == Len(moveHistory)
               last == moveHistory[n]
           IN  /\ lastCall'.result = "true"
               /\ Len(moveHistory') = n - 1
               /\ \A k \in 1 .. (n - 1) : moveHistory'[k] = moveHistory[k]
               /\ board'[last.row][last.col] = Null
               /\ \A i \in 0 .. 14, j \in 0 .. 14 :
                      <<i, j>> # <<last.row, last.col>> => board'[i][j] = board[i][j]
               /\ currentPlayer' = last.player
               /\ gameStatus' = "playing"
               /\ winner' = Null ]_vars

\* Black's move on (7,8) was undone: six moves remain and it is Black's turn.
C9_Witness ==
    /\ lastCall.op = "undo" /\ lastCall.result = "true"
    /\ Len(moveHistory) = 6
    /\ board[7][8] = Null
    /\ board[7][7] = "black" /\ board[8][7] = "white"
    /\ currentPlayer = "black"

\* C10: reset can be called in every state, and leaves the session of a new
\* GameBoard: 225 empty cells, an empty history, Black to move, status
\* playing, no winner.
C10_ResetGivesNewSession ==
    /\ [](ENABLED reset)
    /\ [][ Called("reset")
           => ( /\ DOMAIN board' = 0 .. 14
                /\ \A i \in 0 .. 14 :
                       /\ DOMAIN board'[i] = 0 .. 14
                       /\ \A j \in 0 .. 14 : board'[i][j] = Null
                /\ moveHistory' = <<>>
                /\ currentPlayer' = "black"
                /\ gameStatus' = "playing"
                /\ winner' = Null ) ]_vars

\* reset was called on a drawn game and left an empty board.
C10_Witness ==
    /\ lastCall.op = "reset"
    /\ lastCall.status = "draw"
    /\ StonesOn(board) = 0
    /\ gameStatus = "playing"

\* C13: in every state reached by makeMove, undo and reset, the winner is
\* non-null if and only if the status is won.
C13_WinnerIffWon == (winner # Null) <=> (gameStatus = "won")

\* White has won a game by a move: the winner is set in a won game.
C13_Witness ==
    /\ lastCall.op = "makeMove" /\ lastCall.result = "true"
    /\ gameStatus = "won"
    /\ winner = "white"

\* C14: an accepted makeMove that fills the last empty cell and completes five
\* in a row of the mover through that cell sets the status to won and the
\* winner to the mover; the status is not draw.
C14_WinOnFullBoardIsWon ==
    [][ ( /\ Called("makeMove")
          /\ lastCall'.result = "true"
          /\ StonesOn(board') = boardSize * boardSize
          /\ \E axis \in Axes :
                 RunThrough(board', lastCall'.args[1], lastCall'.args[2],
                            currentPlayer, axis) >= 5 )
        => ( /\ gameStatus' = "won"
             /\ winner' = currentPlayer
             /\ gameStatus' # "draw" ) ]_vars

\* The 225th move, on the last empty cell, won the game.
C14_Witness ==
    /\ lastCall.op = "makeMove" /\ lastCall.result = "true"
    /\ Len(moveHistory) = 225
    /\ StonesOn(board) = 225
    /\ gameStatus = "won"
    /\ winner = moveHistory[225].player

\* C15: an accepted makeMove that fills the last empty cell and completes no
\* five in a row of the mover through that cell sets the status to draw,
\* leaves the winner null and does not switch the turn.
C15_FullBoardWithoutFiveIsDraw ==
    [][ ( /\ Called("makeMove")
          /\ lastCall'.result = "true"
          /\ StonesOn(board') = boardSize * boardSize
          /\ \A axis \in Axes :
                 RunThrough(board', lastCall'.args[1], lastCall'.args[2],
                            currentPlayer, axis) < 5 )
        => ( /\ gameStatus' = "draw"
             /\ winner' = Null
             /\ currentPlayer' = currentPlayer ) ]_vars

\* The 225th move, on the last empty cell, drew the game: the turn is still
\* the mover's.
C15_Witness ==
    /\ lastCall.op = "makeMove" /\ lastCall.result = "true"
    /\ Len(moveHistory) = 225
    /\ StonesOn(board) = 225
    /\ gameStatus = "draw"
    /\ winner = Null
    /\ currentPlayer = moveHistory[225].player

-----------------------------------------------------------------------------
(* Properties of the parity game, under SpecParity *)

\* C16 as stated: the parity game fills the board and ends with status draw;
\* no parity game is over with another status.
C16_ParityGameEndsInDraw == gameStatus # "playing" => gameStatus = "draw"

\* C16, amended: a parity game is never drawn and never fills the board.  When
\* it is over it is won by the mover of the last move, whose stone completed
\* five of its colour on a diagonal while cells were still empty, and the next
\* move of the game was refused or is refused.
C16_ParityGameIsWonBeforeBoardIsFull ==
    /\ gameStatus # "draw"
    /\ StonesOn(board) < boardSize * boardSize
    /\ \A rc \in (0 .. 14) \X (0 .. 14) :
           board[rc[1]][rc[2]] \in {Null, parityColour(rc)}
    /\ gameStatus = "won" =>
           LET last == moveHistory[Len(moveHistory)]
           IN  /\ winner = last.player
               /\ \E axis \in { <<1, 1>>, <<1, -1>> } :
                      RunThrough(board, last.row, last.col, last.player, axis) >= 5
    /\ lastCall.result = "GameOverError" => gameStatus = "won"

\* The game that leaves rows 4, 9 and 14 for last was won by Black's 91st
\* stone, the first on row 4, and White's next move was refused.
C16_Witness ==
    /\ gameStatus = "won"
    /\ winner = "black"
    /\ Len(moveHistory) = 181
    /\ moveHistory[181].row = 4
    /\ lastCall.op = "makeMove"
    /\ lastCall.result = "GameOverError"
    /\ StonesOn(board) = 181

-----------------------------------------------------------------------------
(* Properties of saving and loading, under SpecSave *)

\* C11: in every state reached by makeMove, undo, reset and loadGame of a
\* text produced by saveGame, rejected calls included, the length of the
\* history is the number of stones on the board.
C11_HistoryLengthIsStoneCount == Len(moveHistory) = StonesOn(board)

\* A saved game of six moves was loaded over a game that had more stones.
C11_Witness ==
    /\ lastCall.op = "loadGame" /\ lastCall.result = "true"
    /\ Len(moveHistory) = 6
    /\ lastCall.status = "draw"

\* C12: the initial status is playing.  Once the status is won or draw,
\* makeMove and undo are refused and change nothing, and no step changes the
\* status unless it is a reset or loads a state.
C12_TerminalStatusStays ==
    /\ gameStatus = "playing"
    /\ [][ (gameStatus # "playing") =>
             ( /\ Called("makeMove") =>
                      (lastCall'.result = "GameOverError" /\ UNCHANGED session)
               /\ Called("undo") =>
                      (lastCall'.result = "false" /\ UNCHANGED session)
               /\ ~(Called("reset") \/ Called("loadGame")
                        \/ Called("DOMContentLoaded"))
                      => gameStatus' = gameStatus ) ]_vars

\* A game in progress was loaded over a won game.
C12_Witness ==
    /\ lastCall.op = "loadGame" /\ lastCall.result = "true"
    /\ lastCall.status = "won"
    /\ gameStatus = "playing"
    /\ Len(moveHistory) > 0

\* C17: loading the text that saveGame has just returned leaves board,
\* history, turn, status and winner as they were when it was saved; so does
\* loading it into the new session of a page loaded again, after the text
\* went through setLocalStorage and getLocalStorage; and loading the saved
\* text of a start session gives the fields of that session.
C17_LoadOfSaveReproducesSession ==
    [][ ( /\ (lastCall.op = "saveGame" /\ Called("loadGame")
                 /\ lastCall'.args = <<lastCall.result>>)
              => (lastCall'.result = "true" /\ UNCHANGED session)
          /\ (lastCall.op = "autoSave" /\ Called("DOMContentLoaded")
                 /\ lastCall'.args = <<TRUE>>)
              => (lastCall'.result = "true" /\ UNCHANGED session)
          /\ \A s \in StartSessions :
                 (Called("loadGame") /\ lastCall'.args = <<savedGame(s)>>)
                     => /\ lastCall'.result = "true"
                        /\ board' = s.board
                        /\ moveHistory' = s.moveHistory
                        /\ currentPlayer' = s.currentPlayer
                        /\ gameStatus' = s.gameStatus
                        /\ winner' = s.winner ) ]_vars

\* A game won by Black was auto-saved, the page was loaded again and the game
\* was restored: it is won by Black still.
C17_Witness ==
    /\ lastCall.op = "DOMContentLoaded" /\ lastCall.args = <<TRUE>>
    /\ lastCall.result = "true"
    /\ gameStatus = "won"
    /\ winner = "black"
    /\ StonesOn(board) = Len(moveHistory)

-----------------------------------------------------------------------------
(* Properties of loadGame on texts that no saveGame wrote, under SpecLoad *)

\* The members a saved text has.
FieldNames == {"board", "moveHistory", "currentPlayer", "gameStatus", "winner"}

\* The text does not parse, or parses to an object that lacks a member.
Malformed(text) ==
    \/ text.t = "garbage"
    \/ text.t = "object" /\ \E name \in FieldNames : name \notin DOMAIN text.v

\* The text of a cell, of a player, of a status, of a move of the schema.
IsPieceText(text) ==
    text.t = "null" \/ (text.t = "string" /\ text.v \in Players)

IsMoveText(text, k) ==
    /\ text.t = "object"
    /\ DOMAIN text.v = {"row", "col", "player", "moveNumber"}
    /\ text.v.row.t = "number" /\ text.v.row.v \in 0 .. 14
    /\ text.v.col.t = "number" /\ text.v.col.v \in 0 .. 14
    /\ text.v.player.t = "string" /\ text.v.player.v \in Players
    /\ text.v.moveNumber.t = "number" /\ text.v.moveNumber.v = k

\* The text parses to an object that has the five members, one of them of a
\* shape the schema does not know.
UnknownShape(text) ==
    /\ text.t = "object"
    /\ \A name \in FieldNames : name \in DOMAIN text.v
    /\ ~( /\ text.v.board.t = "array"
          /\ Len(text.v.board.v) = 15
          /\ \A i \in 1 .. 15 :
                 /\ text.v.board.v[i].t = "array"
                 /\ Len(text.v.board.v[i].v) = 15
                 /\ \A j \in 1 .. 15 : IsPieceText(text.v.board.v[i].v[j])
          /\ text.v.gameStatus.t = "string"
          /\ text.v.gameStatus.v \in {"playing", "won", "draw"}
          /\ text.v.currentPlayer.t = "string"
          /\ text.v.currentPlayer.v \in Players
          /\ IsPieceText(text.v.winner)
          /\ text.v.moveHistory.t = "array"
          /\ \A k \in 1 .. Len(text.v.moveHistory.v) :
                 IsMoveText(text.v.moveHistory.v[k], k) )

\* C18 as stated: loadGame of a malformed text reports failure and leaves the
\* five fields of the session as they were.
C18_MalformedLoadLeavesSession ==
    [][ (Called("loadGame") /\ Malformed(lastCall'.args[1]))
        => (lastCall'.result = "false" /\ UNCHANGED session) ]_vars

\* C19 as stated: loadGame of a text whose members have an unknown shape
\* reports failure and leaves the five fields of the session as they were.
C19_UnknownShapeRejected ==
    [][ (Called("loadGame") /\ UnknownShape(lastCall'.args[1]))
        => (lastCall'.result = "false" /\ UNCHANGED session) ]_vars

-----------------------------------------------------------------------------
(* Properties of the read accessors, under SpecAccess *)

\* C20 as stated: whatever a caller does to a board, a history list or a move
\* record it was returned, the board and the history of the session stay as
\* they were, and an undo accepted later clears a cell that holds a stone, the
\* one of the move it removes.
C20_AccessorsReturnCopies ==
    [][ /\ (Called("callerChangesCell") \/ Called("callerRemovesEntry")
               \/ Called("callerChangesMove"))
            => UNCHANGED <<board, moveHistory>>
        /\ (Called("undo") /\ lastCall'.result = "true")
            => StonesOn(board') = StonesOn(board) - 1 ]_vars

-----------------------------------------------------------------------------
(* Further properties of the board state machine, under Spec *)

\* C21: in every state reached by makeMove, undo and reset, the i-th entry of
\* the history has the move number i.
C21_MoveNumbersCountFromOne ==
    \A i \in 1 .. Len(moveHistory) : moveHistory[i].moveNumber = i

\* The sixth move of the seeded game was undone and another sixth move made:
\* it has the number 6.
C21_Witness ==
    /\ lastCall.op = "makeMove" /\ lastCall.result = "true"
    /\ Len(moveHistory) = 6
    /\ moveHistory[6] = [row |-> 8, col |-> 8, player |-> "white", moveNumber |-> 6]
    /\ board[8][7] = Null

\* C22: the i-th move of the history is Black's when i is odd and White's when
\* i is even, and while the status is playing it is Black's turn exactly when
\* the length of the history is even.
C22_BlackFirstThenAlternate ==
    /\ \A i \in 1 .. Len(moveHistory) :
           moveHistory[i].player = IF i % 2 = 1 THEN "black" ELSE "white"
    /\ gameStatus = "playing" =>
           ((currentPlayer = "black") <=> (Len(moveHistory) % 2 = 0))

\* A move of Black was undone: five moves remain and it is White's turn.
C22_Witness ==
    /\ lastCall.op = "undo" /\ lastCall.result = "true"
    /\ Len(moveHistory) = 5
    /\ moveHistory[5].player = "black"
    /\ currentPlayer = "white"
    /\ gameStatus = "playing"

\* The session before the last move, told from the session after it: the cell
\* of the move empty, the history without its last entry, the turn the other
\* player's, the status playing and no winner.
BeforeMove(b, h, player, rc) ==
    [board         |-> [b EXCEPT ![rc[1]][rc[2]] = Null],
     moveHistory   |-> SubSeq(h, 1, Len(h) - 1),
     currentPlayer |-> Other(player),
     gameStatus    |-> "playing",
     winner        |-> Null]

\* C27: an accepted makeMove that leaves the status playing, followed by undo,
\* gives back the session from before the move.  The session before such a
\* move is BeforeMove of the session after it (first part), and the undo that
\* follows the move leaves that same BeforeMove (second part).
C27_UndoReversesOneMove ==
    [][ /\ ( /\ Called("makeMove") /\ lastCall'.result = "true"
             /\ gameStatus' = "playing" )
            => gameBoard = BeforeMove(board', moveHistory', currentPlayer',
                                      lastCall'.args)
        /\ ( /\ lastCall.op = "makeMove" /\ lastCall.result = "true"
             /\ gameStatus = "playing"
             /\ Called("undo") )
            => ( /\ lastCall'.result = "true"
                 /\ board' = BeforeMove(board, moveHistory, currentPlayer,
                                        lastCall.args).board
                 /\ moveHistory' = BeforeMove(board, moveHistory, currentPlayer,
                                              lastCall.args).moveHistory
                 /\ currentPlayer' = Other(currentPlayer)
                 /\ gameStatus' = "playing"
                 /\ winner' = Null ) ]_vars

\* Black's seventh move, on (7,4), was made and undone: the seeded game of
\* six moves is back, with its board and White's move on (8,7) last.
C27_Witness ==
    /\ lastCall.op = "undo" /\ lastCall.result = "true"
    /\ board = MidGameBoard
    /\ moveHistory = Played(MidGameBoard).moveHistory
    /\ currentPlayer = "black"
    /\ gameStatus = "playing"
    /\ winner = Null

\* C30: makeMove called while the status is won or draw on a cell that is off
\* the board or occupied fails with the game-over error, which is not the
\* invalid-move error.
C30_GameOverErrorComesFirst ==
    [][ ( /\ Called("makeMove")
          /\ gameStatus # "playing"
          /\ ~(InBoard(lastCall'.args[1], lastCall'.args[2])
                 /\ board[lastCall'.args[1]][lastCall'.args[2]] = Null) )
        => ( /\ lastCall'.result = "GameOverError"
             /\ lastCall'.result # "InvalidMoveError"
             /\ UNCHANGED session ) ]_vars

\* makeMove was refused with the game-over error for a cell off the board, on
\* a won game.
C30_Witness ==
    /\ lastCall.op = "makeMove"
    /\ lastCall.result = "GameOverError"
    /\ gameStatus = "won"
    /\ ~InBoard(lastCall.args[1], lastCall.args[2])

-----------------------------------------------------------------------------
(* Properties of the rules queries, under SpecQuery *)

EmptyCells(b) == { rc \in (0 .. 14) \X (0 .. 14) : b[rc[1]][rc[2]] = Null }

Queries == { "isValidMove", "checkWinner", "checkDraw", "getValidMoves" }

\* The orders in which four directions can be taken.
ScanOrders ==
    { order \in [1 .. 4 -> 1 .. 4] :
          \A i \in 1 .. 4 : \A j \in 1 .. 4 : i # j => order[i] # order[j] }

\* C23: checkDraw returns true if and only if no cell of the board is empty;
\* on a board with exactly one empty cell it returns false, whatever the
\* other cells hold.
C23_DrawIffNoEmptyCell ==
    lastCall.op = "checkDraw" =>
        /\ lastCall.result = (Cardinality(EmptyCells(board)) = 0)
        /\ Cardinality(EmptyCells(board)) = 1 => lastCall.result = FALSE

\* checkDraw returned false for a board whose only empty cell is the last one
\* of the scan.
C23_Witness ==
    /\ lastCall.op = "checkDraw"
    /\ lastCall.result = FALSE
    /\ board = HolesBoard("rows", { <<14, 14>> })

\* C26: getValidMoves returns exactly the empty cells of the board, each
\* once, in row-major order (rows ascending, columns ascending within a row),
\* and its result is empty exactly when checkDraw is true of the board.
C26_ValidMovesAreEmptyCellsInRowMajorOrder ==
    lastCall.op = "getValidMoves" =>
        /\ { <<lastCall.result[i].row, lastCall.result[i].col>> :
                 i \in 1 .. Len(lastCall.result) } = EmptyCells(board)
        /\ \A i \in 1 .. (Len(lastCall.result) - 1) :
               \/ lastCall.result[i].row < lastCall.result[i + 1].row
               \/ /\ lastCall.result[i].row = lastCall.result[i + 1].row
                  /\ lastCall.result[i].col < lastCall.result[i + 1].col
        /\ (Len(lastCall.result) = 0) <=> checkDraw(board)

\* getValidMoves returned the two empty cells of a board, the one of the
\* higher column and lower row first.
C26_Witness ==
    /\ lastCall.op = "getValidMoves"
    /\ board = HolesBoard("chequered", { <<0, 14>>, <<7, 7>> })
    /\ lastCall.result = << [row |-> 0, col |-> 14], [row |-> 7, col |-> 7] >>

C29_CheckWinnerIgnoresScanOrder ==
    lastCall.op = "checkWinner" =>
        \A order \in ScanOrders, flipped \in SUBSET (1 .. 4) :
            checkWinnerIn(order, flipped, board, lastCall.args[1],
                          lastCall.args[2], lastCall.args[3]) = lastCall.result

\* checkWinner returned true for a stone whose only run of five lies on the
\* direction examined last.
C29_Witness ==
    /\ lastCall.op = "checkWinner"
    /\ lastCall.args = <<7, 7, "black">>
    /\ lastCall.result = TRUE
    /\ board = RaysBoard([d \in 1 .. 4 |-> IF d = 4 THEN 2 ELSE 0],
                         [d \in 1 .. 4 |-> IF d = 4 THEN 2 ELSE 0])

-----------------------------------------------------------------------------
(* The texts written between the events of a game, under SpecSave *)

\* The text of the save just made: what saveGame returned, or what the
\* auto-save handed to setLocalStorage.
SavedText == IF lastCall.op = "autoSave" THEN lastCall.result.v ELSE lastCall.result

\* The number of cells of the saved board that hold a stone.
StonesIn(boardText) ==
    Cardinality({ rc \in (1 .. 15) \X (1 .. 15) :
                      boardText.v[rc[1]].v[rc[2]].t # "null" })

\* C25: a save made by the timer or at unload, at any point between board
\* clicks, undos and new games, writes a whole state: in the text the history
\* has as many entries as the board has stones, the cell of the last entry
\* holds the player of that entry, and the winner is set if and only if the
\* status is won.
C25_SaveWritesWholeState ==
    lastCall.op \in {"saveGame", "autoSave"} =>
        LET history == SavedText.v.moveHistory.v
            last    == history[Len(history)].v
        IN  /\ Len(history) = StonesIn(SavedText.v.board)
            /\ Len(history) > 0 =>
                   SavedText.v.board.v[last.row.v + 1].v[last.col.v + 1]
                       = JsonString(last.player.v)
            /\ (SavedText.v.winner.t # "null")
                   <=> (SavedText.v.gameStatus = JsonString("won"))

\* The timer fired right after the move that won the game for Black: the
\* text holds the nine moves, the ninth stone, the status and the winner.
C25_Witness ==
    /\ lastCall.op = "autoSave"
    /\ SavedText.v.gameStatus = JsonString("won")
    /\ SavedText.v.winner = JsonString("black")
    /\ Len(SavedText.v.moveHistory.v) = 9
    /\ SavedText.v.moveHistory.v[9].v.row = JsonNumber(7)
    /\ SavedText.v.moveHistory.v[9].v.col = JsonNumber(9)
    /\ SavedText.v.board.v[8].v[10] = JsonString("black")

-----------------------------------------------------------------------------
(* Properties of the display coordinates, under SpecCoords *)

\* The numbers 1 to 15 as they are written.
NumberTexts ==
    << <<"1">>, <<"2">>, <<"3">>, <<"4">>, <<"5">>, <<"6">>, <<"7">>, <<"8">>,
       <<"9">>, <<"1", "0">>, <<"1", "1">>, <<"1", "2">>, <<"1", "3">>,
       <<"1", "4">>, <<"1", "5">> >>

\* The notation of the cell: the letter A to O of the column, then the
\* number 15 - row.
Notation(row, col) ==
    LET ColumnLetters == [c \in 0 .. 14 |->
            << "A", "B", "C", "D", "E", "F", "G", "H", "I", "J", "K", "L",
               "M", "N", "O" >>[c + 1]]
    IN  << ColumnLetters[col] >> \o NumberTexts[15 - row]

IsNotation(text) == \E row \in 0 .. 14, col \in 0 .. 14 : text = Notation(row, col)

\* C24: for every row and col in 0..14 boardToDisplayCoords gives the letter
\* A-O of the column followed by the number 15 - row, displayToBoardCoords
\* of that string gives the same row and col back, and displayToBoardCoords
\* returns null for every string that is not such a notation.
C24_DisplayNotationExactAndInvertible ==
    [][ ( /\ Called("boardToDisplayCoords")
              => lastCall'.result = Notation(lastCall'.args[1], lastCall'.args[2])
          /\ (lastCall.op = "boardToDisplayCoords" /\ Called("displayToBoardCoords"))
              => lastCall'.result = [row |-> lastCall.args[1], col |-> lastCall.args[2]]
          /\ (Called("displayToBoardCoords") /\ ~IsNotation(lastCall'.args[1]))
              => lastCall'.result = NoCoords ) ]_vars

-----------------------------------------------------------------------------
(* The board, the history and the status in every reachable state, under Spec *)

\* Five cells in a row on some axis of the board, anywhere, all hold a stone
\* of the player.
FiveOf(b, player) ==
    \E row \in 0 .. 14, col \in 0 .. 14 :
        /\ b[row][col] = player
        /\ \E axis \in Axes :
               /\ InBoard(row + 4 * axis[1], col + 4 * axis[2])
               /\ \A k \in 1 .. 4 : b[row + k * axis[1]][col + k * axis[2]] = player

\* C31: while the status is playing, no five or more stones of one colour
\* lie in a row on any axis anywhere on the board.
C31_PlayingBoardHasNoFive ==
    gameStatus = "playing" => \A player \in Players : ~FiveOf(board, player)

\* A move was accepted that made a run of exactly four through its cell, and
\* the game goes on.
C31_Witness ==
    /\ lastCall.op = "makeMove" /\ lastCall.result = "true"
    /\ gameStatus = "playing"
    /\ LongestRunIs(board, lastCall.args[1], lastCall.args[2],
                    moveHistory[Len(moveHistory)].player, 4)

\* C32: while the status is won, the winner is the player of the last move,
\* a run of five or more stones of the winner passes through the cell of the
\* last move, and the other player has no five in a row anywhere.
C32_WonByLastMoveOnly ==
    gameStatus = "won" =>
        /\ Len(moveHistory) > 0
        /\ winner = moveHistory[Len(moveHistory)].player
        /\ \E axis \in Axes :
               RunThrough(board, moveHistory[Len(moveHistory)].row,
                          moveHistory[Len(moveHistory)].col, winner, axis) >= 5
        /\ ~FiveOf(board, Other(winner))

\* The 225th stone won the game for Black.
C32_Witness ==
    /\ gameStatus = "won" /\ winner = "black"
    /\ Len(moveHistory) = 225
    /\ lastCall.op = "makeMove" /\ lastCall.result = "true"

\* The cells named by the entries of a history.
CellsOf(h) == { <<h[i].row, h[i].col>> : i \in 1 .. Len(h) }

\* C33: the board is the replay of the history: the cell of each entry holds
\* the player of the entry, no two entries name the same cell, and every
\* cell that no entry names is empty.
C33_BoardIsReplayOfHistory ==
    \E named \in { CellsOf(moveHistory) } :
        /\ \A i \in 1 .. Len(moveHistory) :
               board[moveHistory[i].row][moveHistory[i].col] = moveHistory[i].player
        /\ Cardinality(named) = Len(moveHistory)
        /\ \A row \in 0 .. 14, col \in 0 .. 14 :
               <<row, col>> \notin named => board[row][col] = Null

\* A move was taken back and another cell was played instead: the cell of the
\* move taken back is empty.
C33_Witness ==
    /\ lastCall.op = "makeMove" /\ lastCall.result = "true"
    /\ lastCall.args = <<8, 8>>
    /\ Len(moveHistory) = 7
    /\ board[7][8] = Null
    /\ board[8][8] = "black"

\* C36: while the status is draw, the board has no empty cell, the history
\* has 225 entries, the winner is null and no five stones of one colour lie
\* in a row.
C36_DrawnBoardIsFullWithoutFive ==
    gameStatus = "draw" =>
        /\ \A row \in 0 .. 14, col \in 0 .. 14 : board[row][col] # Null
        /\ Len(moveHistory) = 225
        /\ winner = Null
        /\ \A player \in Players : ~FiveOf(board, player)

\* The 225th stone filled the board and the game is drawn.
C36_Witness ==
    /\ gameStatus = "draw"
    /\ lastCall.op = "makeMove" /\ lastCall.result = "true"
    /\ Len(moveHistory) = 225

\* The session a new GameBoard has.
NewSession ==
    [board |-> [i \in 0 .. 14 |-> [j \in 0 .. 14 |-> Null]], moveHistory |-> <<>>,
     currentPlayer |-> "black", gameStatus |-> "playing", winner |-> Null]

\* C37: from a playing state with n moves in the history exactly n undos in
\* a row succeed and the next one fails, and after them the session is that
\* of a new game.  Stated step by step: on a playing game undo succeeds
\* exactly if the history is not empty, a successful undo shortens the
\* history by one and leaves the game playing, and a playing session with
\* an empty history is the session of a new game.
C37_UndoChainEndsAtNewGame ==
    [][ ( /\ (gameStatus = "playing" /\ Called("undo"))
              => /\ (lastCall'.result = "true") <=> (Len(moveHistory) > 0)
                 /\ lastCall'.result = "true"
                        => (Len(moveHistory') = Len(moveHistory) - 1
                            /\ gameStatus' = "playing")
                 /\ lastCall'.result # "true" => UNCHANGED session
                 /\ Len(moveHistory') = 0 => gameBoard' = NewSession ) ]_vars

\* An undo took back the only move left of a game, and the session is that
\* of a new game.
C37_Witness ==
    /\ lastCall.op = "undo" /\ lastCall.result = "true"
    /\ lastCall.status = "playing"
    /\ gameBoard = NewSession

-----------------------------------------------------------------------------
(* GameBoard.isEmpty against the rules, under SpecQuery *)

\* C38: for every pair (row, col), on the board or off it, isEmpty(row, col)
\* is true exactly when isValidMove(board, row, col) is true of the board of
\* the session.
C38_IsEmptyIffValidMove ==
    lastCall.op = "isEmpty" =>
        lastCall.result = isValidMove(board, lastCall.args[1], lastCall.args[2])

-----------------------------------------------------------------------------
(* The end of the game, under SpecPlay *)

\* C35: a game always ends.  With no undo, reset or load every accepted
\* makeMove adds one stone to a board of 225 cells, so that at most 225 are
\* accepted, and if the players keep placing stones on empty cells the
\* status becomes won or draw.
C35_GameAlwaysEnds ==
    /\ [](Len(moveHistory) <= 225)
    /\ [][ (Called("makeMove") /\ lastCall'.result = "true")
               => ( /\ Len(moveHistory') = Len(moveHistory) + 1
                    /\ board[lastCall'.args[1]][lastCall'.args[2]] = Null
                    /\ board'[lastCall'.args[1]][lastCall'.args[2]] # Null ) ]_vars
    /\ <>(gameStatus \in {"won", "draw"})

\* The game was played on from 220 stones, the first of the new stones on
\* another cell than in the game before, and the 225th stone drew it.
C35_Witness ==
    /\ gameStatus = "draw"
    /\ Len(moveHistory) = 225
    /\ lastCall.op = "makeMove" /\ lastCall.result = "true"
    /\ <<moveHistory[221].row, moveHistory[221].col>>
           # <<Played(EndGameBoard).moveHistory[221].row,
               Played(EndGameBoard).moveHistory[221].col>>

-----------------------------------------------------------------------------
(* The game after a saved text was loaded, under SpecSave *)

\* The session a saved text describes, read off the text member by member.
Described(text) ==
    [board         |-> [i \in 0 .. 14 |-> [j \in 0 .. 14 |->
                           IF text.v.board.v[i + 1].v[j + 1].t = "null"
                           THEN Null
                           ELSE text.v.board.v[i + 1].v[j + 1].v]],
     moveHistory   |-> [k \in 1 .. Len(text.v.moveHistory.v) |->
                           [row        |-> text.v.moveHistory.v[k].v.row.v,
                            col        |-> text.v.moveHistory.v[k].v.col.v,
                            player     |-> text.v.moveHistory.v[k].v.player.v,
                            moveNumber |-> text.v.moveHistory.v[k].v.moveNumber.v]],
     currentPlayer |-> text.v.currentPlayer.v,
     gameStatus    |-> text.v.gameStatus.v,
     winner        |-> IF text.v.winner.t = "null" THEN Null ELSE text.v.winner.v]

\* What a call of makeMove, undo or reset has to return and to leave behind
\* on the session s, by the rules of the game.
Expected(s, op, args) ==
    CASE op = "reset" ->
           [session |-> NewSession, result |-> "undefined"]
      [] op = "undo" ->
           IF Len(s.moveHistory) = 0 \/ s.gameStatus # "playing"
           THEN [session |-> s, result |-> "false"]
           ELSE LET last == s.moveHistory[Len(s.moveHistory)]
                IN  [session |->
                         [board         |-> [s.board EXCEPT ![last.row][last.col] = Null],
                          moveHistory   |-> SubSeq(s.moveHistory, 1, Len(s.moveHistory) - 1),
                          currentPlayer |-> last.player,
                          gameStatus    |-> s.gameStatus,
                          winner        |-> s.winner],
                     result |-> "true"]
      [] op = "makeMove" ->
           IF s.gameStatus # "playing"
           THEN [session |-> s, result |-> "GameOverError"]
           ELSE IF ~InBoard(args[1], args[2])
           THEN [session |-> s, result |-> "InvalidMoveError"]
           ELSE IF s.board[args[1]][args[2]] # Null
           THEN [session |-> s, result |-> "InvalidMoveError"]
           ELSE LET placed == [s.board EXCEPT ![args[1]][args[2]] = s.currentPlayer]
                    five   == \E axis \in Axes :
                                 RunThrough(placed, args[1], args[2],
                                            s.currentPlayer, axis) >= 5
                    full   == StonesOn(placed) = 225
                IN  [session |->
                         [board         |-> placed,
                          moveHistory   |-> Append(s.moveHistory,
                                               [row        |-> args[1],
                                                col        |-> args[2],
                                                player     |-> s.currentPlayer,
                                                moveNumber |-> Len(s.moveHistory) + 1]),
                          currentPlayer |-> IF five \/ full THEN s.currentPlayer
                                            ELSE Other(s.currentPlayer),
                          gameStatus    |-> IF five THEN "won"
                                            ELSE IF full THEN "draw" ELSE "playing",
                          winner        |-> IF five THEN s.currentPlayer ELSE s.winner],
                     result |-> "true"]

\* C34: after loadGame of a text that saveGame produced, every sequence of
\* makeMove, undo and reset gives the results and the board, history, turn,
\* status and winner that it gives on the session that was never saved and
\* loaded.  In steps: the text of saveGame describes the session; loadGame
\* of such a text leaves the session the text describes; the first call
\* after the load returns and leaves what the rules give for the session the
\* text describes; and every call returns and leaves what the rules give for
\* the five fields it finds, so that equal sessions stay equal.
C34_ReloadedGameGoesOnAsSaved ==
    [][ ( /\ Called("saveGame") => Described(lastCall'.result) = gameBoard
          /\ (Called("loadGame") /\ lastCall'.result = "true")
                 => gameBoard' = Described(lastCall'.args[1])
          /\ (lastCall.op = "loadGame" /\ lastCall.result = "true"
                 /\ lastCall'.op \in {"makeMove", "undo", "reset"})
                 => \E expected \in { Expected(Described(lastCall.args[1]),
                                               lastCall'.op, lastCall'.args) } :
                        /\ gameBoard' = expected.session
                        /\ lastCall'.result = expected.result
          /\ (lastCall'.op \in {"makeMove", "undo", "reset"})
                 => \E expected \in { Expected(gameBoard, lastCall'.op, lastCall'.args) } :
                        /\ gameBoard' = expected.session
                        /\ lastCall'.result = expected.result ) ]_vars

\* A game eight moves long, saved while it was played and not one of the
\* seeded texts, has just been loaded and is the session again, Black to move
\* and winning at (7,9) with the next call.
C34_Witness ==
    /\ lastCall.op = "loadGame" /\ lastCall.result = "true"
    /\ lastCall.args[1] \notin SavedGames
    /\ Len(moveHistory) = 8 /\ gameStatus = "playing" /\ currentPlayer = "black"
    /\ Expected(gameBoard, "makeMove", <<7, 9>>).session.gameStatus = "won"

-----------------------------------------------------------------------------
(* Properties of the EventManager, under SpecEvents *)

\* The callbacks registered for an event, in the order of registration.
RegisteredFor(listeners, eventName) ==
    IF eventName \in DOMAIN listeners THEN listeners[eventName] ELSE <<>>

\* C39: emit(event, args) calls every listener registered for the event when
\* it is emitted exactly once, in registration order and with the arguments
\* emitted; a listener that throws does not stop the later ones and emit
\* itself does not throw; listeners of other events are not called.
C39_EmitCallsEveryListenerOnce ==
    [][ Called("emit") =>
          /\ lastCall'.result.thrown = FALSE
          /\ Len(lastCall'.result.calls)
                = Len(RegisteredFor(eventListeners, lastCall'.args[1]))
          /\ \A i \in 1 .. Len(lastCall'.result.calls) :
                /\ lastCall'.result.calls[i].callback
                      = RegisteredFor(eventListeners, lastCall'.args[1])[i]
                /\ <<lastCall'.args[1]>> \o lastCall'.result.calls[i].args
                      = lastCall'.args ]_vars

=============================================================================
